---- MODULE Spec2Model ----
(***************************************************************************)
(* Verification model of the on-disk caches of geekfast/hacker-news:       *)
(*   - src/utils/summaryCache.ts   (temp file + rename index)   : SpecSum  *)
(*   - the same write path from an arbitrary index            : SpecSweep *)
(*   - the variant with a memory mirror and a lock file        : SpecLock  *)
(*   - src/utils/imageCache.ts and the image-search handler    : SpecImg   *)
(*   - src/app/api/summarize/route.ts (provider cascade)       : SpecSmz   *)
(* Time is counted in days; Date.now() is the variable now.                *)
(***************************************************************************)
EXTENDS Integers, FiniteSets, Sequences, TLC

\* ------------------------------------------------------------------ bounds
MaxTick == 2
MaxCalls == 2

\* ------------------------------------------------------- program constants
CACHE_EXPIRY_DAYS == 7

Tasks     == {"a", "b"}
Urls      == {"u1", "u2"}
Summaries == {"s1", "s2"}
Titles    == {"t1"}

VARIABLES
  tick,       \* how many times the clock has advanced
  indexFile,  \* content of SUMMARY_INDEX_FILE
  tempFile,   \* content of SUMMARY_INDEX_FILE + '.tmp'
  task,       \* per request: position and locals of the async call it runs
  calls,      \* number of calls started so far
  \* --- the summary cache with the in-memory mirror and the lock file
  lkIndexFile,          \* content of SUMMARY_INDEX_FILE
  lkLockFile,           \* SUMMARY_INDEX_FILE + '.lock' exists
  lkTemp,               \* content of SUMMARY_INDEX_FILE + '.tmp.' + Date.now()
  heap,                 \* the index objects of the JavaScript heap
  memoryCache,          \* reference to an index object, 0 for null
  memoryCacheTimestamp,
  lkTask,               \* per request: position and locals
  lkCalls,              \* number of calls started so far
  \* --- the image cache
  imgIndexFile,         \* content of CACHE_INDEX_FILE
  imgFiles,             \* the artifact files present in CACHE_DIR
  imgTask,              \* per request: position and locals
  imgCalls,             \* number of calls started so far
  \* --- the summarize route
  summaryCache,         \* the route's in-memory Map: key -> entry
  smzTask,              \* per request: position and locals
  smzCalls,             \* number of requests started so far
  \* --- the aggregate route
  aggReq,               \* the request and what each source would answer
  aggPc,                \* position of the handler
  aggResults,           \* what Promise.allSettled delivered, per source
  aggResponse,          \* the JSON body sent
  \* --- the page: aggregated posts converted to stories
  uidPosts,             \* data.posts as the aggregate answered them
  uidWork,              \* the conversion in progress: stories, seenIds, output
  uidRuns,              \* the story lists handed to setStories so far
  \* --- the reddit route
  redEnv,               \* REDDIT_FALLBACK_ENABLED and how each subreddit's
                        \* endpoints behave
  redPc,                \* position of the handler
  redResults,           \* the posts of every subreddit and failedSubreddits
  redResponse,          \* the JSON body sent
  \* --- the page's reddit client
  frs                   \* the fetchRedditStories call: position, attempt,
                        \* requests made, responses seen, delays, result

sumVars  == <<indexFile, tempFile, task, calls>>
lockVars == <<lkIndexFile, lkLockFile, lkTemp, heap, memoryCache,
              memoryCacheTimestamp, lkTask, lkCalls>>
imgVars  == <<imgIndexFile, imgFiles, imgTask, imgCalls>>
smzVars  == <<summaryCache, smzTask, smzCalls>>
aggVars  == <<aggReq, aggPc, aggResults, aggResponse>>
uidVars  == <<uidPosts, uidWork, uidRuns>>
redVars  == <<redEnv, redPc, redResults, redResponse>>
frsVars  == <<frs>>
vars     == <<tick, sumVars, lockVars, imgVars, smzVars, aggVars, uidVars,
              redVars, frsVars>>

\* what the steps of one cache leave alone
offSum   == <<lockVars, imgVars, smzVars, aggVars, uidVars, redVars,
             frsVars>>
offLock  == <<sumVars, imgVars, smzVars, aggVars, uidVars, redVars,
             frsVars>>
offImg   == <<sumVars, lockVars, smzVars, aggVars, uidVars, redVars,
             frsVars>>
offSmz   == <<sumVars, lockVars, imgVars, aggVars, uidVars, redVars,
             frsVars>>
offAgg   == <<tick, sumVars, lockVars, imgVars, smzVars, uidVars, redVars,
             frsVars>>
offUid   == <<tick, sumVars, lockVars, imgVars, smzVars, aggVars, redVars,
             frsVars>>
offRed   == <<tick, sumVars, lockVars, imgVars, smzVars, aggVars, uidVars,
             frsVars>>
offFrs   == <<tick, sumVars, lockVars, imgVars, smzVars, aggVars, uidVars,
             redVars>>
offClock == <<sumVars, lockVars, imgVars, smzVars, aggVars, uidVars, redVars,
             frsVars>>

\* Date.now() in days. The clock is observed at the instants 0, 7, 8, 15, 16,
\* ...: each entry can be seen at age 0, at exactly CACHE_EXPIRY_DAYS (the
\* boundary, still live) and one day later (expired).
Instant(i) == (CACHE_EXPIRY_DAYS + 1) * (i \div 2) + CACHE_EXPIRY_DAYS * (i % 2)

now == Instant(tick)

\* ------------------------------------------------------------ index values
EmptyIndex == [k \in {} |-> 0]

IndexPut(index, k, e) ==
  [x \in (DOMAIN index) \cup {k} |-> IF x = k THEN e ELSE index[x]]

IndexDelete(index, ks) == [x \in (DOMAIN index) \ ks |-> index[x]]

\* ------------------------------------------------------------- file values
NoFile    == [st |-> "ENOENT",  data |-> EmptyIndex]
Truncated == [st |-> "partial", data |-> EmptyIndex]

JSONstringify(index) == [st |-> "json", data |-> index]

\* JSON.parse inside loadCacheIndex: anything but a complete document throws
\* and the catch returns {}.
loadCacheIndex(file) == IF file.st = "json" THEN file.data ELSE EmptyIndex

generateUrlHash(url) == <<"md5", url>>

expiryTime == CACHE_EXPIRY_DAYS

isExpired(timestamp, clock) == (clock - timestamp) > expiryTime

ExpiredKeys(index, clock) ==
  {k \in DOMAIN index : isExpired(index[k].timestamp, clock)}

\* a write path that forgets the cleanup loop
SweepNothing(index, clock) == index

\* the lazy cleanup loop of cacheSummary / cleanOldSummaryCache
SweepExpired(index, clock) == IndexDelete(index, ExpiredKeys(index, clock))

SummaryCacheEntry(url, summary, title, clock) ==
  [summary |-> summary, timestamp |-> clock, title |-> title,
   urlHash |-> generateUrlHash(url)]

\* ------------------------------------- the lock-based variant: constants
MaxLockCalls == 2
MaxRetry == 1
MEMORY_CACHE_TTL == 300000     \* 5 * 60 * 1000 ms
MS_PER_DAY == 86400000         \* 24 * 60 * 60 * 1000 ms

\* '.tmp.' + Date.now(): two saves that start within one millisecond get the
\* same name
TempNames == {"ms1", "ms2"}

ObjIds == 1..(Cardinality(Tasks) + 2)

LIdle ==
  [pc |-> "idle", op |-> "none", url |-> "u1", summary |-> "s1",
   title |-> "t1", index |-> 0, doc |-> EmptyIndex, stamp |-> 0,
   tempName |-> "none", fd |-> "none", depth |-> 0, result |-> "null"]

LockIdle ==
  /\ lkIndexFile = NoFile
  /\ lkLockFile = FALSE
  /\ lkTemp = [n \in TempNames |-> NoFile]
  /\ heap = [o \in ObjIds |-> EmptyIndex]
  /\ memoryCache = 0
  /\ memoryCacheTimestamp = 0
  /\ lkTask = [t \in Tasks |-> LIdle]
  /\ lkCalls = 0

\* ------------------------------------------- the image cache: constants
MaxImgCalls == 2
IMAGE_MAX_AGE_DAYS == 7        \* cleanOldCache's default maxAgeMs, in days

\* A query string: its letters in lower case, whether some letter is in upper
\* case, whether it carries surrounding whitespace.
QueryBases == {"foo"}
Queries    == [base : QueryBases, upper : BOOLEAN, padded : BOOLEAN]
ImageUrls  == {"img1"}

NoResponse ==
  [status |-> 0, imageUrl |-> "none", cached |-> FALSE, source |-> "none",
   error |-> "none"]

ImgTaskIdle ==
  [pc |-> "idle", op |-> "none", handler |-> FALSE, production |-> FALSE,
   query |-> [base |-> "foo", upper |-> FALSE, padded |-> FALSE],
   imageUrl |-> "img1", index |-> EmptyIndex, read |-> "none", stamp |-> 0,
   result |-> "null", response |-> NoResponse]

ImgIdle ==
  /\ imgIndexFile = NoFile
  /\ imgFiles = {}
  /\ imgTask = [t \in Tasks |-> ImgTaskIdle]
  /\ imgCalls = 0

\* --------------------------------------- the summarize route: constants
MaxSmzCalls == 2
MaxRateCalls == 11    \* requests of one address within one minute
RATE_LIMIT == 10      \* the documented limit: 10 requests/minute per IP
CACHE_DURATION == 86400000     \* 24 * 60 * 60 * 1000 ms
MIN_SUMMARY_LENGTH == 20       \* summary.length < 20 is insufficient

\* A title: its text, the text as generateCacheKey normalises it, its
\* length, whether trim() leaves nothing, and the keywords
\* generateFallbackSummary extracts from it.
TitleEmpty ==
  [text |-> "", norm |-> "", chars |-> 0, blank |-> TRUE, keywords |-> <<>>]
TitleBlank ==
  [text |-> " ", norm |-> "-", chars |-> 1, blank |-> TRUE,
   keywords |-> <<>>]
TitleShowHN ==
  [text |-> "Show HN: my project", norm |-> "show-hn--my-project",
   chars |-> 19, blank |-> FALSE, keywords |-> <<"show", "project">>]
TitleAI ==
  [text |-> "AI", norm |-> "ai", chars |-> 2, blank |-> FALSE,
   keywords |-> <<>>]

SmzTitles == {TitleEmpty, TitleBlank, TitleShowHN, TitleAI}
SmzUrls   == {"u1"}
Forces    == {"none", "openai", "fallback"}

\* what a provider call settles with: no API key, a thrown error, or a text
\* of some length
ProviderOutcomes ==
  [kind : {"nokey", "error"}, length : {0}]
    \cup [kind : {"text"}, length : {0, MIN_SUMMARY_LENGTH - 1, MIN_SUMMARY_LENGTH}]

NoSummary == [by |-> "none"]

NoSmzResponse ==
  [status |-> 0, summary |-> NoSummary, source |-> "none", cached |-> FALSE,
   error |-> "none"]

SmzTaskIdle ==
  [pc |-> "idle", method |-> "none", title |-> TitleEmpty, url |-> "",
   force |-> "none", lost |-> FALSE, log |-> <<>>,
   response |-> NoSmzResponse]

SmzIdle ==
  /\ summaryCache = EmptyIndex
  /\ smzTask = [t \in Tasks |-> SmzTaskIdle]
  /\ smzCalls = 0

\* ------------------------------------------------ aggregate route: values
MaxLimit == 3     \* the limit parameter ranges over 0 .. MaxLimit
MaxLen == 2       \* a source's complete list holds up to MaxLen posts

\* Math.abs(scoreA) < 5: the closeness threshold of the comparator
CLOSE_SCORE == 5

AggUrls == {"x", "y", "z"}
Scores == {0, 4, 8}

\* created_utc of the three posts: "x" is the newest, "z" the oldest (the
\* urls are interchangeable, so one order stands for all)
Created == [u \in AggUrls |-> CASE u = "x" -> 3 [] u = "y" -> 2 [] OTHER -> 1]

\* the branches of fetchFromSource; any other name is an unknown source
KnownSources == {"github", "devto", "lobsters", "reddit"}

\* the names a request lists: three known sources and one unknown
SourceNames == {"github", "devto", "reddit", "bogus"}

NoAggRequest ==
  [sources |-> <<>>, limit |-> 0, includeReddit |-> TRUE,
   outcome |-> EmptyIndex, score |-> EmptyIndex, created |-> EmptyIndex]

NoAggResponse ==
  [posts |-> <<>>, sourceStats |-> EmptyIndex, error |-> "none"]

AggIdle ==
  /\ aggReq = NoAggRequest
  /\ aggPc = "idle"
  /\ aggResults = <<>>
  /\ aggResponse = NoAggResponse

\* ------------------------------------------------- the page: story ids
MaxPosts == 3     \* data.posts holds 1 .. MaxPosts posts

\* post.id as the sources send it: digits, or a slug
PostIds == {<<"1">>, <<"3", "0", "5", "7">>, <<"a", "b">>}

PostTitles == {<<"a">>, <<"b">>}

\* values of Math.floor(Math.random() * 1000000)
Randoms == {7, 8}

NoWork == [pc |-> "idle", stories |-> <<>>, seenIds |-> {}, out |-> <<>>]

UidIdle ==
  /\ uidPosts = <<>>
  /\ uidWork = NoWork
  /\ uidRuns = <<>>

\* ------------------------------------------------ the reddit route: values
REDDIT_TIMEOUT_MS == 60000     \* process.env.REDDIT_TIMEOUT_MS || '60000'
REDDIT_DEFAULT_LIMIT == 12     \* searchParams.get('limit') || '12'
MOCK_POSTS == 12               \* getMockRedditPosts() returns twelve posts

SUBREDDITS ==
  <<"programming", "javascript", "webdev", "technology", "MachineLearning",
    "artificial", "coding", "compsci">>

NoRedResponse == [posts |-> <<>>, source |-> "none"]

\* ------------------------------------- the page's reddit client: values
maxAttempts == 3
baseDelayMs == 600

NoFrs == [pc |-> "idle", attempt |-> 0, requests |-> 0, responses |-> <<>>,
          delays |-> <<>>, result |-> <<>>]

FrsIdle == frs = NoFrs

RedIdle ==
  /\ redEnv = [fallbackEnabled |-> FALSE, world |-> <<>>]
  /\ redPc = "idle"
  /\ redResults = [posts |-> <<>>, failedSubreddits |-> 0]
  /\ redResponse = NoRedResponse

\* ----------------------------------------------------------- task records
Idle ==
  [pc |-> "idle", op |-> "none", url |-> "u1", summary |-> "s1",
   title |-> "t1", index |-> EmptyIndex, fd |-> "none", result |-> "null",
   stamp |-> 0]

\* A rename or unlink by one task moves the inode other tasks hold open.
FdAfterRename(fd) ==
  CASE fd = "tmp" -> "idx"
    [] fd = "idx" -> "orphan"
    [] OTHER      -> fd

FdAfterUnlinkTemp(fd) == IF fd = "tmp" THEN "orphan" ELSE fd

FdAfterRm(fd) == IF fd \in {"tmp", "idx"} THEN "orphan" ELSE fd

\* ------------------------------------------------------------------ calls
CallCacheSummary(t, url, summary, title) ==
  /\ task[t].pc = "idle"
  /\ task' = [task EXCEPT ![t] = [Idle EXCEPT !.pc = "load",
                 !.op = "cacheSummary", !.url = url, !.summary = summary,
                 !.title = title]]
  /\ UNCHANGED <<tick, indexFile, tempFile>>
  /\ calls < MaxCalls /\ calls' = calls + 1

CallGetCachedSummary(t, url) ==
  /\ task[t].pc = "idle"
  /\ task' = [task EXCEPT ![t] = [Idle EXCEPT !.pc = "load",
                 !.op = "getCachedSummary", !.url = url]]
  /\ UNCHANGED <<tick, indexFile, tempFile>>
  /\ calls < MaxCalls /\ calls' = calls + 1

CallCleanOldSummaryCache(t) ==
  /\ task[t].pc = "idle"
  /\ task' = [task EXCEPT ![t] = [Idle EXCEPT !.pc = "load",
                 !.op = "cleanOldSummaryCache"]]
  /\ UNCHANGED <<tick, indexFile, tempFile>>
  /\ calls < MaxCalls /\ calls' = calls + 1

\* a load without the catch: a missing or unparseable file fails the call
LoadIndexThrowing(t) ==
  /\ task[t].pc = "load"
  /\ task' = [task EXCEPT ![t].index = loadCacheIndex(indexFile),
                          ![t].pc = IF indexFile.st # "json" THEN "failed"
                                    ELSE IF task[t].op = "getCachedSummary"
                                    THEN "lookup" ELSE "sweep"]
  /\ UNCHANGED <<tick, indexFile, tempFile, calls>>

\* await loadCacheIndex(): fs.readFile + JSON.parse, {} on any failure
LoadIndex(t) ==
  /\ task[t].pc = "load"
  /\ task' = [task EXCEPT ![t].index = loadCacheIndex(indexFile),
                          ![t].pc = IF task[t].op = "getCachedSummary"
                                    THEN "lookup" ELSE "sweep"]
  /\ UNCHANGED <<tick, indexFile, tempFile, calls>>

\* getCachedSummary after the load: absent or expired -> null
GetCachedSummaryResult(index, url, clock) ==
  LET h == generateUrlHash(url) IN
  IF h \notin DOMAIN index THEN "null"
  ELSE IF isExpired(index[h].timestamp, clock) THEN "null"
  ELSE index[h].summary

\* a read path that evicts the expired entry it finds and saves the index
GetCachedSummaryEvicting(t) ==
  LET h == generateUrlHash(task[t].url) IN
  /\ task[t].pc = "lookup"
  /\ task' = [task EXCEPT ![t].pc = "returned", ![t].index = EmptyIndex,
                ![t].result = GetCachedSummaryResult(task[t].index, task[t].url, now)]
  /\ indexFile' = IF h \in DOMAIN task[t].index
                     /\ isExpired(task[t].index[h].timestamp, now)
                  THEN JSONstringify(IndexDelete(task[t].index, {h}))
                  ELSE indexFile
  /\ UNCHANGED <<tick, tempFile, calls>>

GetCachedSummary(t) ==
  /\ task[t].pc = "lookup"
  /\ task' = [task EXCEPT ![t].pc = "returned", ![t].index = EmptyIndex,
                ![t].result = GetCachedSummaryResult(task[t].index, task[t].url, now)]
  /\ UNCHANGED <<tick, indexFile, tempFile, calls>>

\* cacheSummary after the load: sweep, build the entry, index[urlHash] = entry
CacheSummaryIndex(index, url, summary, title, clock) ==
  IndexPut(SweepExpired(index, clock), generateUrlHash(url),
           SummaryCacheEntry(url, summary, title, clock))

CacheSummarySweep(t) ==
  /\ task[t].pc = "sweep"
  /\ task[t].op = "cacheSummary"
  /\ task' = [task EXCEPT ![t].pc = "open", ![t].stamp = now,
                ![t].index = CacheSummaryIndex(task[t].index, task[t].url,
                               task[t].summary, task[t].title, now)]
  /\ UNCHANGED <<tick, indexFile, tempFile, calls>>

\* cleanOldSummaryCache after the load: saves only when something was cleaned
CleanOldSweep(t) ==
  /\ task[t].pc = "sweep"
  /\ task[t].op = "cleanOldSummaryCache"
  /\ task' = [task EXCEPT ![t].index =
                  IF ExpiredKeys(task[t].index, now) # {}
                  THEN SweepExpired(task[t].index, now) ELSE EmptyIndex,
                ![t].pc = IF ExpiredKeys(task[t].index, now) # {}
                          THEN "open" ELSE "returned"]
  /\ UNCHANGED <<tick, indexFile, tempFile, calls>>

\* saveCacheIndex: ensureCacheDirectory(), then fs.writeFile(tempFile, ...),
\* first half: open with O_CREAT|O_TRUNC. An existing temp file is truncated
\* in place (same inode).
OpenTemp(t) ==
  /\ task[t].pc = "open"
  /\ tempFile' = Truncated
  /\ task' = [task EXCEPT ![t].pc = "write", ![t].fd = "tmp"]
  /\ UNCHANGED <<tick, indexFile, calls>>

\* fs.writeFile, second half: the bytes go to the inode the descriptor holds,
\* wherever its name is by now; or the write fails (storage error).
WriteThrough(fd, file, doc, which) == IF fd = which THEN doc ELSE file

WriteTemp(t, fails) ==
  /\ task[t].pc = "write"
  /\ IF fails
     THEN /\ task' = [task EXCEPT ![t].pc = "cleanup", ![t].fd = "none",
                                    ![t].index = EmptyIndex]
          /\ UNCHANGED <<tempFile, indexFile>>
     ELSE /\ tempFile'  = WriteThrough(task[t].fd, tempFile,
                                       JSONstringify(task[t].index), "tmp")
          /\ indexFile' = WriteThrough(task[t].fd, indexFile,
                                       JSONstringify(task[t].index), "idx")
          /\ task' = [task EXCEPT ![t].pc = "rename", ![t].fd = "none",
                                    ![t].index = EmptyIndex]
  /\ UNCHANGED <<tick, calls>>

\* fs.rename(tempFile, SUMMARY_INDEX_FILE)
RenameTemp(t) ==
  /\ task[t].pc = "rename"
  /\ IF tempFile.st # "ENOENT"
     THEN /\ indexFile' = tempFile
          /\ tempFile' = NoFile
          /\ task' = [u \in Tasks |->
                IF u = t THEN [task[t] EXCEPT !.pc = "returned"]
                ELSE [task[u] EXCEPT !.fd = FdAfterRename(task[u].fd)]]
     ELSE /\ task' = [task EXCEPT ![t].pc = "cleanup"]
          /\ UNCHANGED <<indexFile, tempFile>>
  /\ UNCHANGED <<tick, calls>>

\* catch of saveCacheIndex: unlink the temp file, rethrow; the catch of the
\* caller logs the error and returns
CleanupTemp(t) ==
  /\ task[t].pc = "cleanup"
  /\ tempFile' = NoFile
  /\ task' = [u \in Tasks |->
        IF u = t THEN [task[t] EXCEPT !.pc = "failed"]
        ELSE [task[u] EXCEPT !.fd = FdAfterUnlinkTemp(task[u].fd)]]
  /\ UNCHANGED <<tick, indexFile, calls>>

\* clearSummaryCache: fs.rm(SUMMARY_CACHE_DIR, {recursive, force})
ClearSummaryCache(t) ==
  /\ task[t].pc = "idle"
  /\ indexFile' = NoFile
  /\ tempFile' = NoFile
  /\ task' = [u \in Tasks |->
        IF u = t THEN [Idle EXCEPT !.pc = "returned", !.op = "clearSummaryCache"]
        ELSE [task[u] EXCEPT !.fd = FdAfterRm(task[u].fd)]]
  /\ calls < MaxCalls /\ calls' = calls + 1
  /\ UNCHANGED tick

\* the caller takes the result; the request is over
Return(t) ==
  /\ task[t].pc \in {"returned", "failed"}
  /\ task' = [task EXCEPT ![t] = Idle]
  /\ UNCHANGED <<tick, indexFile, tempFile, calls>>

Tick ==
  /\ tick < MaxTick
  /\ tick' = tick + 1

SumIdle ==
  /\ indexFile = NoFile
  /\ tempFile = NoFile
  /\ task = [t \in Tasks |-> Idle]
  /\ calls = 0

SumInit ==
  /\ tick = 0
  /\ LockIdle
  /\ ImgIdle
  /\ SmzIdle
  /\ AggIdle
  /\ UidIdle
  /\ RedIdle
  /\ FrsIdle
  /\ indexFile = NoFile
  /\ tempFile = NoFile
  /\ task = [t \in Tasks |-> Idle]
  /\ calls = 0

SumNext ==
  \/ \E t \in Tasks, u \in Urls, s \in Summaries, ti \in Titles :
       CallCacheSummary(t, u, s, ti)
       /\ UNCHANGED offSum
  \/ \E t \in Tasks, u \in Urls : CallGetCachedSummary(t, u)
       /\ UNCHANGED offSum
  \/ \E t \in Tasks : CallCleanOldSummaryCache(t)
       /\ UNCHANGED offSum
  \/ \E t \in Tasks : LoadIndex(t)
       /\ UNCHANGED offSum
  \/ \E t \in Tasks : GetCachedSummary(t)
       /\ UNCHANGED offSum
  \/ \E t \in Tasks : CacheSummarySweep(t)
       /\ UNCHANGED offSum
  \/ \E t \in Tasks : CleanOldSweep(t)
       /\ UNCHANGED offSum
  \/ \E t \in Tasks : OpenTemp(t)
       /\ UNCHANGED offSum
  \/ \E t \in Tasks, fails \in BOOLEAN : WriteTemp(t, fails)
       /\ UNCHANGED offSum
  \/ \E t \in Tasks : RenameTemp(t)
       /\ UNCHANGED offSum
  \/ \E t \in Tasks : CleanupTemp(t)
       /\ UNCHANGED offSum
  \/ \E t \in Tasks : ClearSummaryCache(t)
       /\ UNCHANGED offSum
  \/ \E t \in Tasks : Return(t)
       /\ UNCHANGED offSum
  \/ Tick /\ UNCHANGED offClock

SpecSum == SumInit /\ [][SumNext]_vars

\* ====================================================================
\* Claims about src/utils/summaryCache.ts, checked under SpecSum
\* ====================================================================
OtherTask(t) == CHOOSE o \in Tasks : o # t

Age(stamp) == now - stamp

\* what a getCachedSummary(url) issued now on the file as it is would return
GetNow(url) == GetCachedSummaryResult(loadCacheIndex(indexFile), url, now)

\* C1: when the only two calls made so far are cacheSummary calls for
\* different URLs, run by the two tasks with their steps interleaved in any
\* order, then once both have returned normally (and neither entry has
\* outlived the TTL) the index file holds an entry for each of the two URLs.
C1_NoLostUpdate ==
  \A t \in Tasks :
    LET o == OtherTask(t) IN
    ( /\ calls = 2
      /\ task[t].pc = "returned" /\ task[t].op = "cacheSummary"
      /\ task[o].pc = "returned" /\ task[o].op = "cacheSummary"
      /\ task[t].url # task[o].url
      /\ Age(task[t].stamp) <= CACHE_EXPIRY_DAYS
      /\ Age(task[o].stamp) <= CACHE_EXPIRY_DAYS )
    => {generateUrlHash(task[t].url), generateUrlHash(task[o].url)}
         \subseteq DOMAIN loadCacheIndex(indexFile)

\* C2: at every point of every interleaving of saves, the canonical index
\* file is absent or holds one complete serialized index, never a truncated
\* or partially written document.
C2_IndexFileAlwaysComplete == indexFile.st \in {"ENOENT", "json"}

\* C5: no step of a getCachedSummary call (its start, its load of the index,
\* its lookup) changes the content of the index file, whether the key is
\* absent, expired or live.
GetCachedSummaryStep(t) ==
  \/ \E u \in Urls : CallGetCachedSummary(t, u)
  \/ LoadIndex(t) /\ task[t].op = "getCachedSummary"
  \/ GetCachedSummary(t)

C5_GetLeavesIndexFile ==
  [][(\E t \in Tasks : GetCachedSummaryStep(t)) => indexFile' = indexFile]_vars

\* a getCachedSummary has returned a miss for a key whose expired entry is
\* still in the index file
C5_Witness ==
  \E t \in Tasks :
    LET h == generateUrlHash(task[t].url) IN
    /\ task[t].pc = "returned" /\ task[t].op = "getCachedSummary"
    /\ task[t].result = "null"
    /\ indexFile.st = "json" /\ h \in DOMAIN indexFile.data
    /\ Age(indexFile.data[h].timestamp) > CACHE_EXPIRY_DAYS

\* C6: after cacheSummary(url, s, title) has returned normally, with no
\* clear and no other write of the same URL (every other call so far is a
\* read or a write of another URL), getCachedSummary(url) returns s while at
\* most 7 days have passed since the write and a miss afterwards.
C6_RoundTrip ==
  \A t \in Tasks :
    LET o == OtherTask(t) IN
    ( /\ task[t].pc = "returned" /\ task[t].op = "cacheSummary"
      /\ \/ calls = 1
         \/ /\ calls = 2
            /\ \/ task[o].op = "getCachedSummary"
               \/ task[o].op = "cacheSummary" /\ task[o].url # task[t].url )
    => GetNow(task[t].url) =
         IF Age(task[t].stamp) <= CACHE_EXPIRY_DAYS
         THEN task[t].summary ELSE "null"

\* ====================================================================
\* The summary cache started on a missing or unparseable index: SpecHeal
\* ====================================================================
HealInit ==
  /\ tick = 0
  /\ LockIdle
  /\ ImgIdle
  /\ SmzIdle
  /\ AggIdle
  /\ UidIdle
  /\ RedIdle
  /\ FrsIdle
  /\ indexFile \in {NoFile, Truncated}
  /\ tempFile = NoFile
  /\ task = [t \in Tasks |-> Idle]
  /\ calls = 0

SpecHeal == HealInit /\ [][SumNext]_vars

\* the calls made so far are the call of task t and at most one
\* getCachedSummary
AloneOrWithGet(t) ==
  \/ calls = 1
  \/ calls = 2 /\ task[OtherTask(t)].op = "getCachedSummary"

\* C11: started on a missing or unparseable index file, (a) a
\* getCachedSummary that finds the file still missing or unparseable ends
\* normally with a miss, and (b) once a cacheSummary, the only writer so far,
\* has returned normally, the index file is a parseable document that holds
\* the entry it wrote.
C11_SelfHeal ==
  \A t \in Tasks :
    LET h == generateUrlHash(task[t].url) IN
    /\ ( /\ task[t].op = "getCachedSummary"
         /\ task[t].pc \in {"returned", "failed"}
         /\ AloneOrWithGet(t)
         /\ indexFile.st # "json" )
       => task[t].pc = "returned" /\ task[t].result = "null"
    /\ ( /\ task[t].op = "cacheSummary"
         /\ task[t].pc = "returned"
         /\ AloneOrWithGet(t) )
       => /\ indexFile.st = "json"
          /\ h \in DOMAIN indexFile.data
          /\ indexFile.data[h].summary = task[t].summary
          /\ indexFile.data[h].timestamp = task[t].stamp

\* a getCachedSummary has answered a miss on the unparseable file, and the
\* cacheSummary that follows it has returned and left a parseable index
C11_Witness ==
  \E t \in Tasks :
    LET o == OtherTask(t) IN
    /\ calls = 2
    /\ task[o].op = "getCachedSummary" /\ task[o].pc = "returned"
    /\ task[o].result = "null"
    /\ task[t].op = "cacheSummary" /\ task[t].pc = "returned"
    /\ indexFile.st = "json"

\* ====================================================================
\* One cacheSummary call on an arbitrary index: SpecSweep
\* ====================================================================
Urls3 == {"u1", "u2", "u3"}

\* every index over a set of URLs whose entries were stamped at the instants
\* the clock has shown so far
IndexesOver(urls, stamps) ==
  UNION { { [h \in {generateUrlHash(u) : u \in S} |->
               SummaryCacheEntry(h[2], g[h[2]][1], "t1", g[h[2]][2])] :
            g \in [S -> Summaries \X stamps] } :
          S \in SUBSET urls }

SweepInit ==
  /\ tick \in 0..MaxTick
  /\ indexFile \in {JSONstringify(ix) :
                      ix \in IndexesOver(Urls3, {Instant(i) : i \in 0..tick})}
  /\ tempFile = NoFile
  /\ task = [t \in Tasks |-> Idle]
  /\ calls = MaxCalls - 1
  /\ LockIdle
  /\ ImgIdle
  /\ SmzIdle
  /\ AggIdle
  /\ UidIdle
  /\ RedIdle
  /\ FrsIdle

SweepNext ==
  \/ \E t \in Tasks, u \in Urls3, s \in Summaries, ti \in Titles :
       CallCacheSummary(t, u, s, ti)
       /\ UNCHANGED offSum
  \/ \E t \in Tasks : LoadIndex(t)
       /\ UNCHANGED offSum
  \/ \E t \in Tasks : CacheSummarySweep(t)
       /\ UNCHANGED offSum
  \/ \E t \in Tasks : OpenTemp(t)
       /\ UNCHANGED offSum
  \/ \E t \in Tasks, fails \in BOOLEAN : WriteTemp(t, fails)
       /\ UNCHANGED offSum
  \/ \E t \in Tasks : RenameTemp(t)
       /\ UNCHANGED offSum
  \/ \E t \in Tasks : CleanupTemp(t)
       /\ UNCHANGED offSum
  \/ \E t \in Tasks : Return(t)
       /\ UNCHANGED offSum
  \/ Tick /\ UNCHANGED offClock

SpecSweep == SweepInit /\ [][SweepNext]_vars

\* the entries of index for URLs other than the one with hash h that were at
\* most CACHE_EXPIRY_DAYS old at day clock
LiveOthers(index, h, clock) ==
  {k \in DOMAIN index \ {h} : clock - index[k].timestamp <= CACHE_EXPIRY_DAYS}

Referenced(mc, tk) == {mc} \cup {tk[t].index : t \in Tasks}

\* a new object: the first one nothing refers to
Alloc(mc, tk) ==
  CHOOSE o \in ObjIds \ Referenced(mc, tk) :
    \A p \in ObjIds \ Referenced(mc, tk) : o <= p

\* objects nothing refers to any more are garbage
Collect(h, mc, tk) ==
  [o \in ObjIds |-> IF o \in Referenced(mc, tk) THEN h[o] ELSE EmptyIndex]

\* loadCacheIndex, the check of the mirror: memoryCache && now - ts < TTL
MemoryCacheValid(clock) ==
  /\ memoryCache # 0
  /\ (clock - memoryCacheTimestamp) * MS_PER_DAY < MEMORY_CACHE_TTL

\* The call and the synchronous start of loadCacheIndex: a valid mirror is
\* returned as it is (the same object); otherwise the file is read.
StartLoad(t, rec) ==
  /\ lkTask[t].pc = "idle"
  /\ lkCalls < MaxLockCalls
  /\ lkCalls' = lkCalls + 1
  /\ lkTask' = [lkTask EXCEPT ![t] =
        IF MemoryCacheValid(now)
        THEN [rec EXCEPT !.pc = "sync", !.index = memoryCache]
        ELSE [rec EXCEPT !.pc = "read", !.stamp = now]]
  /\ UNCHANGED <<tick, lkIndexFile, lkLockFile, lkTemp, heap, memoryCache,
                 memoryCacheTimestamp>>

LkCallCacheSummary(t, url, summary, title) ==
  StartLoad(t, [LIdle EXCEPT !.op = "cacheSummary", !.url = url,
                             !.summary = summary, !.title = title])

LkCallGetCachedSummary(t, url) ==
  StartLoad(t, [LIdle EXCEPT !.op = "getCachedSummary", !.url = url])

LkCallCleanOldSummaryCache(t) ==
  StartLoad(t, [LIdle EXCEPT !.op = "cleanOldSummaryCache"])

\* loadCacheIndex, the file branch: the parsed index (or {}) becomes the
\* mirror, stamped with the time the load started, and is returned
LkReadIndex(t) ==
  LET o == Alloc(memoryCache, lkTask) IN
  /\ lkTask[t].pc = "read"
  /\ memoryCache' = o
  /\ memoryCacheTimestamp' = lkTask[t].stamp
  /\ lkTask' = [lkTask EXCEPT ![t].pc = "sync", ![t].index = o, ![t].stamp = 0]
  /\ heap' = Collect([heap EXCEPT ![o] = loadCacheIndex(lkIndexFile)],
                     memoryCache', lkTask')
  /\ UNCHANGED <<tick, lkIndexFile, lkLockFile, lkTemp, lkCalls>>

\* getCachedSummary after the load
LkGetCachedSummary(t) ==
  /\ lkTask[t].pc = "sync"
  /\ lkTask[t].op = "getCachedSummary"
  /\ lkTask' = [lkTask EXCEPT ![t].pc = "returned", ![t].index = 0,
        ![t].result = GetCachedSummaryResult(heap[lkTask[t].index],
                                             lkTask[t].url, now)]
  /\ heap' = Collect(heap, memoryCache, lkTask')
  /\ UNCHANGED <<tick, lkIndexFile, lkLockFile, lkTemp, memoryCache,
                 memoryCacheTimestamp, lkCalls>>

\* cacheSummary after the load, up to the call of saveCacheIndex: the sweep
\* and the new entry change the loaded object in place, then the mirror is
\* replaced by a copy of it
LkCacheSummarySweep(t) ==
  LET o    == lkTask[t].index
      new  == CacheSummaryIndex(heap[o], lkTask[t].url, lkTask[t].summary,
                                lkTask[t].title, now)
      c    == Alloc(memoryCache, lkTask)
  IN
  /\ lkTask[t].pc = "sync"
  /\ lkTask[t].op = "cacheSummary"
  /\ memoryCache' = c
  /\ memoryCacheTimestamp' = now
  /\ lkTask' = [lkTask EXCEPT ![t].pc = "access", ![t].stamp = now]
  /\ heap' = Collect([heap EXCEPT ![o] = new, ![c] = new], c, lkTask')
  /\ UNCHANGED <<tick, lkIndexFile, lkLockFile, lkTemp, lkCalls>>

\* cleanOldSummaryCache after the load: deletes in the loaded object, saves
\* only when something was cleaned
LkCleanOldSweep(t) ==
  LET o       == lkTask[t].index
      expired == ExpiredKeys(heap[o], now)
  IN
  /\ lkTask[t].pc = "sync"
  /\ lkTask[t].op = "cleanOldSummaryCache"
  /\ lkTask' = [lkTask EXCEPT
        ![t].pc = IF expired # {} THEN "access" ELSE "returned",
        ![t].index = IF expired # {} THEN o ELSE 0]
  /\ heap' = Collect([heap EXCEPT ![o] = SweepExpired(heap[o], now)],
                     memoryCache, lkTask')
  /\ UNCHANGED <<tick, lkIndexFile, lkLockFile, lkTemp, memoryCache,
                 memoryCacheTimestamp, lkCalls>>

\* saveCacheIndex: fs.access(lockFile). A lock that is there: wait 100 ms and
\* call saveCacheIndex again (one frame deeper). No lock: proceed.
LkAccessLock(t) ==
  /\ lkTask[t].pc = "access"
  /\ IF lkLockFile
     THEN /\ lkTask[t].depth < MaxRetry
          /\ lkTask' = [lkTask EXCEPT ![t].depth = lkTask[t].depth + 1]
     ELSE \E n \in TempNames :
            lkTask' = [lkTask EXCEPT ![t].pc = "createLock", ![t].tempName = n]
  /\ UNCHANGED <<tick, lkIndexFile, lkLockFile, lkTemp, heap, memoryCache,
                 memoryCacheTimestamp, lkCalls>>

\* fs.writeFile(lockFile, Date.now().toString())
LkCreateLock(t) ==
  /\ lkTask[t].pc = "createLock"
  /\ lkLockFile' = TRUE
  /\ lkTask' = [lkTask EXCEPT ![t].pc = "openTemp"]
  /\ UNCHANGED <<tick, lkIndexFile, lkTemp, heap, memoryCache,
                 memoryCacheTimestamp, lkCalls>>

\* fs.writeFile(tempFile, JSON.stringify(index, null, 2)), first half: the
\* object is serialized as it is now, the temp file is opened and truncated
LkOpenTemp(t) ==
  /\ lkTask[t].pc = "openTemp"
  /\ lkTemp' = [lkTemp EXCEPT ![lkTask[t].tempName] = Truncated]
  /\ lkTask' = [lkTask EXCEPT ![t].pc = "writeTemp",
                  ![t].doc = heap[lkTask[t].index],
                  ![t].fd = lkTask[t].tempName]
  /\ UNCHANGED <<tick, lkIndexFile, lkLockFile, heap, memoryCache,
                 memoryCacheTimestamp, lkCalls>>

\* fs.writeFile, second half: the bytes go to the inode the descriptor holds
LkWriteTemp(t, fails) ==
  /\ lkTask[t].pc = "writeTemp"
  /\ IF fails
     THEN /\ lkTask' = [lkTask EXCEPT ![t].pc = "catchTemp", ![t].fd = "none",
                                      ![t].doc = EmptyIndex]
          /\ UNCHANGED <<lkTemp, lkIndexFile>>
     ELSE /\ lkTemp' = [n \in TempNames |->
                          WriteThrough(lkTask[t].fd, lkTemp[n],
                                       JSONstringify(lkTask[t].doc), n)]
          /\ lkIndexFile' = WriteThrough(lkTask[t].fd, lkIndexFile,
                                         JSONstringify(lkTask[t].doc), "idx")
          /\ lkTask' = [lkTask EXCEPT ![t].pc = "rename", ![t].fd = "none",
                                      ![t].doc = EmptyIndex]
  /\ UNCHANGED <<tick, lkLockFile, heap, memoryCache, memoryCacheTimestamp,
                 lkCalls>>

LkFdAfterRename(fd, n) ==
  CASE fd = n     -> "idx"
    [] fd = "idx" -> "orphan"
    [] OTHER      -> fd

LkFdAfterUnlink(fd, n) == IF fd = n THEN "orphan" ELSE fd

\* fs.rename(tempFile, SUMMARY_INDEX_FILE)
LkRenameTemp(t) ==
  LET n == lkTask[t].tempName IN
  /\ lkTask[t].pc = "rename"
  /\ IF lkTemp[n].st # "ENOENT"
     THEN /\ lkIndexFile' = lkTemp[n]
          /\ lkTemp' = [lkTemp EXCEPT ![n] = NoFile]
          /\ lkTask' = [u \in Tasks |->
                IF u = t THEN [lkTask[t] EXCEPT !.pc = "unlinkLock"]
                ELSE [lkTask[u] EXCEPT !.fd = LkFdAfterRename(lkTask[u].fd, n)]]
     ELSE /\ lkTask' = [lkTask EXCEPT ![t].pc = "catchTemp"]
          /\ UNCHANGED <<lkIndexFile, lkTemp>>
  /\ UNCHANGED <<tick, lkLockFile, heap, memoryCache, memoryCacheTimestamp,
                 lkCalls>>

\* fs.unlink(lockFile); ENOENT when the lock is gone. On success every frame
\* of saveCacheIndex returns and the caller returns.
LkUnlinkLock(t) ==
  /\ lkTask[t].pc = "unlinkLock"
  /\ IF lkLockFile
     THEN /\ lkLockFile' = FALSE
          /\ lkTask' = [lkTask EXCEPT ![t].pc = "returned", ![t].depth = 0,
                                      ![t].index = 0]
     ELSE /\ lkTask' = [lkTask EXCEPT ![t].pc = "catchTemp"]
          /\ UNCHANGED lkLockFile
  /\ heap' = Collect(heap, memoryCache, lkTask')
  /\ UNCHANGED <<tick, lkIndexFile, lkTemp, memoryCache,
                 memoryCacheTimestamp, lkCalls>>

\* catch of saveCacheIndex: try { unlink(tempFile) } catch {}
LkCatchUnlinkTemp(t) ==
  LET n == lkTask[t].tempName IN
  /\ lkTask[t].pc = "catchTemp"
  /\ lkTemp' = [lkTemp EXCEPT ![n] = NoFile]
  /\ lkTask' = [u \in Tasks |->
        IF u = t THEN [lkTask[t] EXCEPT !.pc = "catchLock"]
        ELSE [lkTask[u] EXCEPT !.fd = LkFdAfterUnlink(lkTask[u].fd, n)]]
  /\ UNCHANGED <<tick, lkIndexFile, lkLockFile, heap, memoryCache,
                 memoryCacheTimestamp, lkCalls>>

\* catch of saveCacheIndex: try { unlink(lockFile) } catch {}; throw error.
\* In a retry frame the error lands in the caller frame's "No lock, proceed"
\* catch, which goes on to create the lock; in the outermost frame it reaches
\* the catch of cacheSummary (mirror invalidated) or cleanOldSummaryCache.
LkCatchUnlinkLock(t) ==
  /\ lkTask[t].pc = "catchLock"
  /\ lkLockFile' = FALSE
  /\ IF lkTask[t].depth > 0
     THEN /\ \E n \in TempNames :
               lkTask' = [lkTask EXCEPT ![t].pc = "createLock",
                            ![t].depth = lkTask[t].depth - 1,
                            ![t].tempName = n]
          /\ UNCHANGED <<memoryCache, memoryCacheTimestamp>>
     ELSE /\ lkTask' = [lkTask EXCEPT ![t].pc = "failed", ![t].index = 0]
          /\ IF lkTask[t].op = "cacheSummary"
             THEN memoryCache' = 0 /\ memoryCacheTimestamp' = 0
             ELSE UNCHANGED <<memoryCache, memoryCacheTimestamp>>
  /\ heap' = Collect(heap, memoryCache', lkTask')
  /\ UNCHANGED <<tick, lkIndexFile, lkTemp, lkCalls>>

\* clearSummaryCache: fs.rm(SUMMARY_CACHE_DIR, {recursive, force}) ...
LkClearRm(t) ==
  /\ lkTask[t].pc = "idle"
  /\ lkCalls < MaxLockCalls
  /\ lkCalls' = lkCalls + 1
  /\ lkIndexFile' = NoFile
  /\ lkLockFile' = FALSE
  /\ lkTemp' = [n \in TempNames |-> NoFile]
  /\ lkTask' = [u \in Tasks |->
        IF u = t THEN [LIdle EXCEPT !.pc = "clearMem", !.op = "clearSummaryCache"]
        ELSE [lkTask[u] EXCEPT !.fd = IF lkTask[u].fd = "none"
                                       THEN "none" ELSE "orphan"]]
  /\ UNCHANGED <<tick, heap, memoryCache, memoryCacheTimestamp>>

\* ... then memoryCache = null
LkClearMemory(t) ==
  /\ lkTask[t].pc = "clearMem"
  /\ memoryCache' = 0
  /\ memoryCacheTimestamp' = 0
  /\ lkTask' = [lkTask EXCEPT ![t].pc = "returned"]
  /\ heap' = Collect(heap, 0, lkTask')
  /\ UNCHANGED <<tick, lkIndexFile, lkLockFile, lkTemp, lkCalls>>

LkReturn(t) ==
  /\ lkTask[t].pc \in {"returned", "failed"}
  /\ lkTask' = [lkTask EXCEPT ![t] = LIdle]
  /\ UNCHANGED <<tick, lkIndexFile, lkLockFile, lkTemp, heap, memoryCache,
                 memoryCacheTimestamp, lkCalls>>

LockInit ==
  /\ tick = 0
  /\ LockIdle
  /\ SumIdle
  /\ ImgIdle
  /\ SmzIdle
  /\ AggIdle
  /\ UidIdle
  /\ RedIdle
  /\ FrsIdle

LockNext ==
  \/ \E t \in Tasks, u \in Urls, s \in Summaries, ti \in Titles :
       LkCallCacheSummary(t, u, s, ti)
       /\ UNCHANGED offLock
  \/ \E t \in Tasks, u \in Urls : LkCallGetCachedSummary(t, u)
       /\ UNCHANGED offLock
  \/ \E t \in Tasks : LkCallCleanOldSummaryCache(t)
       /\ UNCHANGED offLock
  \/ \E t \in Tasks : LkReadIndex(t)
       /\ UNCHANGED offLock
  \/ \E t \in Tasks : LkGetCachedSummary(t)
       /\ UNCHANGED offLock
  \/ \E t \in Tasks : LkCacheSummarySweep(t)
       /\ UNCHANGED offLock
  \/ \E t \in Tasks : LkCleanOldSweep(t)
       /\ UNCHANGED offLock
  \/ \E t \in Tasks : LkAccessLock(t)
       /\ UNCHANGED offLock
  \/ \E t \in Tasks : LkCreateLock(t)
       /\ UNCHANGED offLock
  \/ \E t \in Tasks : LkOpenTemp(t)
       /\ UNCHANGED offLock
  \/ \E t \in Tasks, fails \in BOOLEAN : LkWriteTemp(t, fails)
       /\ UNCHANGED offLock
  \/ \E t \in Tasks : LkRenameTemp(t)
       /\ UNCHANGED offLock
  \/ \E t \in Tasks : LkUnlinkLock(t)
       /\ UNCHANGED offLock
  \/ \E t \in Tasks : LkCatchUnlinkTemp(t)
       /\ UNCHANGED offLock
  \/ \E t \in Tasks : LkCatchUnlinkLock(t)
       /\ UNCHANGED offLock
  \/ \E t \in Tasks : LkClearRm(t)
       /\ UNCHANGED offLock
  \/ \E t \in Tasks : LkClearMemory(t)
       /\ UNCHANGED offLock
  \/ \E t \in Tasks : LkReturn(t)
       /\ UNCHANGED offLock
  \/ Tick /\ UNCHANGED offClock

SpecLock == LockInit /\ [][LockNext]_vars

\* the writers between creating the lock file and removing it
LockHolders ==
  {t \in Tasks : lkTask[t].pc \in {"openTemp", "writeTemp", "rename",
                                   "unlinkLock", "catchTemp", "catchLock"}}

\* C3: at most one writer at a time is between creating the lock file and
\* removing it.
C3_LockMutualExclusion == Cardinality(LockHolders) <= 1

\* no call of the lock-based summary cache is between its start and its end
LockQuiescent ==
  \A t \in Tasks : lkTask[t].pc \in {"idle", "returned", "failed"}

\* C12: whenever no summary-cache call is in flight, a mirror that is not
\* null holds exactly the entries a read of the index file would produce.
C12_MirrorMatchesDisk ==
  (LockQuiescent /\ memoryCache # 0)
    => heap[memoryCache] = loadCacheIndex(lkIndexFile)

\* ======================================================= the image cache
\* src/utils/imageCache.ts and the image-search handler that calls it.

\* String.prototype.toLowerCase: the letters change, the whitespace stays
toLowerCase(query) == [query EXCEPT !.upper = FALSE]

\* md5 of the query as given, plus '.jpg'
generateFilename(query) == <<"md5", query, ".jpg">>

CachePath(filename) == <<"/cache/", filename>>

ImageCacheEntry(query, imageUrl, clock) ==
  [filename |-> generateFilename(query), timestamp |-> clock,
   originalUrl |-> imageUrl]

\* the test of cleanOldCache's loop
ImgExpired(entry, clock) == clock - entry.timestamp > IMAGE_MAX_AGE_DAYS

ImgExpiredKeys(index, clock) ==
  {k \in DOMAIN index : ImgExpired(index[k], clock)}

Json(status, imageUrl, cached, source, error) ==
  [status |-> status, imageUrl |-> imageUrl, cached |-> cached,
   source |-> source, error |-> error]

\* A cache function settles with result; when the handler awaits it, the
\* handler runs on to its next await or to its response.
ImgFinish(r, result) ==
  IF ~r.handler
  THEN [r EXCEPT !.pc = "returned", !.result = result,
                 !.index = EmptyIndex]
  ELSE IF r.op = "getCachedImage"
  THEN IF result # "null"
       THEN [r EXCEPT !.pc = "returned", !.result = result,
                      !.index = EmptyIndex,
                      !.response = Json(200, result, TRUE, "none", "none")]
       ELSE [r EXCEPT !.pc = "search", !.result = result,
                      !.index = EmptyIndex]
  ELSE IF result = "threw"
  THEN [r EXCEPT !.pc = "returned", !.result = result,
                 !.index = EmptyIndex,
                 !.response = Json(500, "none", FALSE, "none",
                                   "Failed to fetch image")]
  ELSE [r EXCEPT !.pc = "returned", !.result = result,
                 !.index = EmptyIndex,
                 !.response = Json(200, result, FALSE, "none", "none")]

ImgCallGetCachedImage(t, query) ==
  /\ imgCalls < MaxImgCalls
  /\ imgTask[t].pc = "idle"
  /\ imgTask' = [imgTask EXCEPT ![t] =
       [ImgTaskIdle EXCEPT !.pc = "load", !.op = "getCachedImage",
                           !.query = query]]
  /\ imgCalls' = imgCalls + 1
  /\ UNCHANGED <<tick, imgIndexFile, imgFiles>>

ImgCallCacheImage(t, query, imageUrl) ==
  /\ imgCalls < MaxImgCalls
  /\ imgTask[t].pc = "idle"
  /\ imgTask' = [imgTask EXCEPT ![t] =
       [ImgTaskIdle EXCEPT !.pc = "download", !.op = "cacheImage",
                           !.query = query, !.imageUrl = imageUrl]]
  /\ imgCalls' = imgCalls + 1
  /\ UNCHANGED <<tick, imgIndexFile, imgFiles>>

ImgCallCleanOldCache(t) ==
  /\ imgCalls < MaxImgCalls
  /\ imgTask[t].pc = "idle"
  /\ imgTask' = [imgTask EXCEPT ![t] =
       [ImgTaskIdle EXCEPT !.pc = "load", !.op = "cleanOldCache"]]
  /\ imgCalls' = imgCalls + 1
  /\ UNCHANGED <<tick, imgIndexFile, imgFiles>>

\* GET /api/search-image?query=...
ImgCallGET(t, query, production) ==
  /\ imgCalls < MaxImgCalls
  /\ imgTask[t].pc = "idle"
  /\ imgTask' = [imgTask EXCEPT ![t] =
       IF production
       THEN [ImgTaskIdle EXCEPT !.pc = "search", !.handler = TRUE,
                                !.production = TRUE, !.query = query]
       ELSE [ImgTaskIdle EXCEPT !.pc = "load", !.op = "getCachedImage",
                                !.handler = TRUE, !.query = query]]
  /\ imgCalls' = imgCalls + 1
  /\ UNCHANGED <<tick, imgIndexFile, imgFiles>>

\* GET /api/search-image without a query
ImgCallGETNoQuery(t) ==
  /\ imgCalls < MaxImgCalls
  /\ imgTask[t].pc = "idle"
  /\ imgTask' = [imgTask EXCEPT ![t] =
       [ImgTaskIdle EXCEPT !.pc = "returned", !.handler = TRUE,
          !.response = Json(400, "none", FALSE, "none",
                            "Query parameter is required")]]
  /\ imgCalls' = imgCalls + 1
  /\ UNCHANGED <<tick, imgIndexFile, imgFiles>>

\* loadCacheIndex, and what its caller does with the index before it awaits
\* again
ImgLoadIndex(t) ==
  /\ imgTask[t].pc = "load"
  /\ LET r     == [imgTask[t] EXCEPT !.read = imgIndexFile.st]
         index == loadCacheIndex(imgIndexFile)
         key   == toLowerCase(r.query)
     IN imgTask' = [imgTask EXCEPT ![t] =
          CASE r.op = "getCachedImage" ->
                 IF key \notin DOMAIN index
                 THEN ImgFinish(r, "null")
                 ELSE [r EXCEPT !.pc = "access", !.index = index]
            [] r.op = "cacheImage" ->
                 [r EXCEPT !.pc = "open",
                    !.index = IndexPut(index, key,
                                ImageCacheEntry(r.query, r.imageUrl, now))]
            [] OTHER ->
                 IF ImgExpiredKeys(index, now) = {}
                 THEN ImgFinish(r, "void")
                 ELSE [r EXCEPT !.pc = "sweep", !.index = index,
                                !.stamp = now]]
  /\ UNCHANGED <<tick, imgIndexFile, imgFiles, imgCalls>>

\* getCachedImage after the lookup: fs.access(filePath)
GetCachedImageAccess(r, files) ==
  LET key   == toLowerCase(r.query)
      entry == r.index[key]
  IN IF entry.filename \in files
     THEN ImgFinish(r, CachePath(entry.filename))
     ELSE [r EXCEPT !.pc = "open", !.index = IndexDelete(r.index, {key})]

ImgAccessFile(t) ==
  /\ imgTask[t].pc = "access"
  /\ imgTask' = [imgTask EXCEPT ![t] = GetCachedImageAccess(imgTask[t], imgFiles)]
  /\ UNCHANGED <<tick, imgIndexFile, imgFiles, imgCalls>>

\* one turn of cleanOldCache's loop: unlink the file, drop the entry; after
\* the last turn the index is saved
ImgSweepEntry(t) ==
  /\ imgTask[t].pc = "sweep"
  /\ LET r == imgTask[t]
     IN \E k \in ImgExpiredKeys(r.index, r.stamp) :
          LET rest == IndexDelete(r.index, {k})
          IN /\ imgFiles' = imgFiles \ {r.index[k].filename}
             /\ imgTask' = [imgTask EXCEPT ![t] =
                  [r EXCEPT !.index = rest,
                     !.pc = IF ImgExpiredKeys(rest, r.stamp) = {}
                            THEN "open" ELSE "sweep"]]
  /\ UNCHANGED <<tick, imgIndexFile, imgCalls>>

\* saveCacheIndex: fs.writeFile opens CACHE_INDEX_FILE, which truncates it ...
ImgOpenIndex(t) ==
  /\ imgTask[t].pc = "open"
  /\ imgIndexFile' = Truncated
  /\ imgTask' = [imgTask EXCEPT ![t].pc = "write"]
  /\ UNCHANGED <<tick, imgFiles, imgCalls>>

\* ... and then writes the document, or fails to
ImgWriteIndex(t, fails) ==
  /\ imgTask[t].pc = "write"
  /\ LET r == imgTask[t]
     IN /\ imgIndexFile' = IF fails THEN imgIndexFile
                           ELSE JSONstringify(r.index)
        /\ imgTask' = [imgTask EXCEPT ![t] =
             CASE r.op = "getCachedImage" -> ImgFinish(r, "null")
               [] r.op = "cacheImage" ->
                    ImgFinish(r, IF fails THEN "threw"
                                 ELSE CachePath(generateFilename(r.query)))
               [] OTHER -> ImgFinish(r, "void")]
  /\ UNCHANGED <<tick, imgFiles, imgCalls>>

\* cacheImage: fetch(imageUrl)
ImgDownload(t, ok) ==
  /\ imgTask[t].pc = "download"
  /\ imgTask' = [imgTask EXCEPT ![t] =
       IF ok THEN [imgTask[t] EXCEPT !.pc = "saveImage"]
       ELSE ImgFinish(imgTask[t], "threw")]
  /\ UNCHANGED <<tick, imgIndexFile, imgFiles, imgCalls>>

\* cacheImage: fs.writeFile(filePath, buffer); a failed write may or may not
\* have created the file
ImgWriteImage(t, outcome) ==
  /\ imgTask[t].pc = "saveImage"
  /\ LET r == imgTask[t]
     IN /\ imgFiles' = IF outcome = "EACCES" THEN imgFiles
                       ELSE imgFiles \cup {generateFilename(r.query)}
        /\ imgTask' = [imgTask EXCEPT ![t] =
             IF outcome = "ok" THEN [r EXCEPT !.pc = "load"]
             ELSE ImgFinish(r, "threw")]
  /\ UNCHANGED <<tick, imgIndexFile, imgCalls>>

\* the handler's request to the image-search provider
ImgSearch(t, outcome, url) ==
  /\ imgTask[t].pc = "search"
  /\ LET r == imgTask[t]
     IN imgTask' = [imgTask EXCEPT ![t] =
          CASE outcome = "nokey" ->
                 [r EXCEPT !.pc = "returned",
                    !.response = Json(500, "none", FALSE, "none",
                                   "Unsplash API key is not configured")]
            [] outcome = "status" ->
                 [r EXCEPT !.pc = "returned",
                    !.response = Json(500, "none", FALSE, "none",
                                      "Failed to fetch image")]
            [] outcome = "empty" ->
                 [r EXCEPT !.pc = "returned",
                    !.response = Json(404, "none", FALSE, "none",
                                      "No image found for the query")]
            [] OTHER ->
                 IF r.production
                 THEN [r EXCEPT !.pc = "returned", !.imageUrl = url,
                         !.response = Json(200, url, FALSE,
                                           "unsplash-direct", "none")]
                 ELSE [r EXCEPT !.pc = "download", !.op = "cacheImage",
                                !.imageUrl = url]]
  /\ UNCHANGED <<tick, imgIndexFile, imgFiles, imgCalls>>

ImgReturn(t) ==
  /\ imgTask[t].pc = "returned"
  /\ imgTask' = [imgTask EXCEPT ![t] = ImgTaskIdle]
  /\ UNCHANGED <<tick, imgIndexFile, imgFiles, imgCalls>>

ImgInit ==
  /\ tick = 0
  /\ SumIdle
  /\ LockIdle
  /\ ImgIdle
  /\ SmzIdle
  /\ AggIdle
  /\ UidIdle
  /\ RedIdle
  /\ FrsIdle

ImgNext ==
  \/ \E t \in Tasks, q \in Queries : ImgCallGetCachedImage(t, q)
       /\ UNCHANGED offImg
  \/ \E t \in Tasks, q \in Queries, u \in ImageUrls :
       ImgCallCacheImage(t, q, u)
       /\ UNCHANGED offImg
  \/ \E t \in Tasks : ImgCallCleanOldCache(t)
       /\ UNCHANGED offImg
  \/ \E t \in Tasks, q \in Queries, production \in BOOLEAN :
       ImgCallGET(t, q, production)
       /\ UNCHANGED offImg
  \/ \E t \in Tasks : ImgCallGETNoQuery(t)
       /\ UNCHANGED offImg
  \/ \E t \in Tasks : ImgLoadIndex(t)
       /\ UNCHANGED offImg
  \/ \E t \in Tasks : ImgAccessFile(t)
       /\ UNCHANGED offImg
  \/ \E t \in Tasks : ImgSweepEntry(t)
       /\ UNCHANGED offImg
  \/ \E t \in Tasks : ImgOpenIndex(t)
       /\ UNCHANGED offImg
  \/ \E t \in Tasks, fails \in BOOLEAN : ImgWriteIndex(t, fails)
       /\ UNCHANGED offImg
  \/ \E t \in Tasks, ok \in BOOLEAN : ImgDownload(t, ok)
       /\ UNCHANGED offImg
  \/ \E t \in Tasks, outcome \in {"ok", "EACCES", "ENOSPC"} :
       ImgWriteImage(t, outcome)
       /\ UNCHANGED offImg
  \/ \E t \in Tasks, outcome \in {"nokey", "status", "empty", "found"},
        u \in ImageUrls : ImgSearch(t, outcome, u)
       /\ UNCHANGED offImg
  \/ \E t \in Tasks : ImgReturn(t)
       /\ UNCHANGED offImg
  \/ Tick /\ UNCHANGED offClock

SpecImg == ImgInit /\ [][ImgNext]_vars

\* C4: no reader of the image cache index gets a truncated or partially
\* written file from its read: every read returns a missing file or a
\* complete document.
C4_ReadersSeeCompleteIndex == \A t \in Tasks : imgTask[t].read # "partial"

\* C7: when getCachedImage looks up an entry that is older than the maximum
\* age, it answers null.
C7_ExpiredImageIsMiss ==
  [][\A t \in Tasks :
       ( /\ ImgAccessFile(t)
         /\ ImgExpired(imgTask[t].index[toLowerCase(imgTask[t].query)], now) )
       => imgTask'[t].result = "null"]_vars

\* two queries that differ only by letter case or surrounding whitespace
SameQuery(q1, q2) == q1.base = q2.base

\* what getCachedImage(query) answers when it runs alone from this state
GetImageNow(query) ==
  LET index == loadCacheIndex(imgIndexFile)
      key   == toLowerCase(query)
  IN IF key \in DOMAIN index /\ index[key].filename \in imgFiles
     THEN CachePath(index[key].filename)
     ELSE "null"

\* C9: after cacheImage(q1) has stored an image, and nothing else has run,
\* every query q2 that differs from q1 only by letter case or surrounding
\* whitespace names the same artifact file, and getCachedImage(q2) is a hit
\* on the file cacheImage(q1) has just written.
C9_KeyNormalization ==
  \A t \in Tasks :
    ( /\ imgCalls = 1
      /\ imgTask[t].pc = "returned"
      /\ ~imgTask[t].handler
      /\ imgTask[t].op = "cacheImage"
      /\ imgTask[t].result # "threw" )
    => \A q2 \in Queries :
         SameQuery(imgTask[t].query, q2)
         => /\ generateFilename(q2) = generateFilename(imgTask[t].query)
            /\ GetImageNow(q2) = imgTask[t].result

\* C10: when cacheImage throws inside the image-search handler, the handler
\* answers 200 with the image URL the provider has just returned.
C10_CachingIsBestEffort ==
  \A t \in Tasks :
    ( /\ imgTask[t].pc = "returned"
      /\ imgTask[t].handler
      /\ imgTask[t].op = "cacheImage"
      /\ imgTask[t].result = "threw" )
    => /\ imgTask[t].response.status = 200
       /\ imgTask[t].response.imageUrl = imgTask[t].imageUrl

\* ==================================================== the summarize route
\* src/app/api/summarize/route.ts: POST and GET with the in-memory cache and
\* the cascade Gemini -> OpenAI -> template.

\* `${title}-${url || ''}`.toLowerCase().replace(/[^a-z0-9]/g, '-')
generateCacheKey(title, url) == <<title.norm, "-", url>>

\* an entry check that trusts every entry, however old
isCacheValidAlways(timestamp, clock) == TRUE

\* an entry check that never trusts the cache
isCacheValidNever(timestamp, clock) == FALSE

isCacheValid(timestamp, clock) ==
  (clock - timestamp) * MS_PER_DAY < CACHE_DURATION

\* the template text: which of the four templates, filled with which
\* keywords (at most five)
generateFallbackSummary(title) ==
  [by |-> "template", template |-> title.chars % 4,
   keywords |-> SubSeq(title.keywords, 1,
                       IF Len(title.keywords) < 5 THEN Len(title.keywords)
                       ELSE 5)]

\* !summary || summary.length < 20
Insufficient(length) == length = 0 \/ length < MIN_SUMMARY_LENGTH

ProviderSucceeds(out) == out.kind = "text" /\ ~Insufficient(out.length)

ProviderSummary(provider, out) == [by |-> provider, length |-> out.length]

SmzEntry(summary, clock, source) ==
  [summary |-> summary, timestamp |-> clock, source |-> source]

SmzJson(status, summary, source, cached, error) ==
  [status |-> status, summary |-> summary, source |-> source,
   cached |-> cached, error |-> error]

Attempt(provider) == [provider |-> provider, state |-> "pending"]

\* the last attempt of the log settles
Settle(log, state) == [log EXCEPT ![Len(log)].state = state]

SmzRespond(r, response) ==
  [r EXCEPT !.pc = "responded", !.response = response]

\* A request past validation: the cache check, then the start of the
\* cascade. The result is the request's record and the cache.
SmzSummarize(r, cache, clock) ==
  LET key    == generateCacheKey(r.title, r.url)
      cached == IF key \in DOMAIN cache THEN cache[key]
                ELSE SmzEntry(NoSummary, 0, "none")
      text   == generateFallbackSummary(r.title)
  IN
  IF key \in DOMAIN cache /\ isCacheValid(cached.timestamp, clock)
  THEN [rec |-> SmzRespond(r, SmzJson(200, cached.summary, cached.source,
                                      TRUE, "none")),
        cache |-> cache]
  ELSE IF r.force = "fallback"
  THEN [rec |-> SmzRespond([r EXCEPT !.log = <<[provider |-> "template",
                                               state |-> "ok"]>>],
                           SmzJson(200, text, "fallback", FALSE, "none")),
        cache |-> IndexPut(cache, key, SmzEntry(text, clock, "fallback"))]
  ELSE IF r.force = "openai"
  THEN [rec |-> [r EXCEPT !.pc = "openai", !.log = <<Attempt("openai")>>],
        cache |-> cache]
  ELSE [rec |-> [r EXCEPT !.pc = "gemini", !.log = <<Attempt("gemini")>>],
        cache |-> cache]

\* POST with a body that is not JSON
SmzCallPOSTMalformed(t) ==
  /\ smzCalls < MaxSmzCalls
  /\ smzTask[t].pc = "idle"
  /\ smzTask' = [smzTask EXCEPT ![t] =
       SmzRespond([SmzTaskIdle EXCEPT !.method = "POST"],
                  SmzJson(500, NoSummary, "none", FALSE,
                          "Failed to generate summary"))]
  /\ smzCalls' = smzCalls + 1
  /\ UNCHANGED <<tick, summaryCache>>

\* POST {title, url}; a missing title is the empty one
POST(t, title, url) ==
  /\ smzTask[t].pc = "idle"
  /\ LET r == [SmzTaskIdle EXCEPT !.method = "POST", !.title = title,
                                  !.url = url]
         go == SmzSummarize(r, summaryCache, now)
     IN IF title.chars = 0 \/ title.blank
        THEN /\ smzTask' = [smzTask EXCEPT ![t] =
                  SmzRespond(r, SmzJson(400, NoSummary, "none", FALSE,
                                        "Title is required"))]
             /\ summaryCache' = summaryCache
        ELSE /\ smzTask' = [smzTask EXCEPT ![t] = go.rec]
             /\ summaryCache' = go.cache
  /\ smzCalls' = smzCalls + 1
  /\ UNCHANGED tick

SmzCallPOST(t, title, url) ==
  /\ smzCalls < MaxSmzCalls
  /\ POST(t, title, url)

\* GET ?action=stats or ?action=clear-cache, whatever else the query holds
SmzCallGETAction(t, action) ==
  /\ smzCalls < MaxSmzCalls
  /\ smzTask[t].pc = "idle"
  /\ LET r == [SmzTaskIdle EXCEPT !.method = action] IN
     IF action = "stats"
     THEN /\ smzTask' = [smzTask EXCEPT ![t] =
               SmzRespond(r, SmzJson(200,
                  [by |-> "stats",
                   totalEntries |-> Cardinality(DOMAIN summaryCache),
                   validEntries |-> Cardinality(
                      {k \in DOMAIN summaryCache :
                         isCacheValid(summaryCache[k].timestamp, now)})],
                  "none", FALSE, "none"))]
          /\ summaryCache' = summaryCache
     ELSE /\ smzTask' = [smzTask EXCEPT ![t] =
               SmzRespond(r, SmzJson(200, [by |-> "Cache cleared successfully"],
                                     "none", FALSE, "none"))]
          /\ summaryCache' = EmptyIndex
  /\ smzCalls' = smzCalls + 1
  /\ UNCHANGED tick

\* GET ?title=...&url=...&force=... without a stats or clear-cache action; a
\* missing title and a missing url are the empty ones
GET(t, title, url, force) ==
  /\ smzTask[t].pc = "idle"
  /\ LET r == [SmzTaskIdle EXCEPT !.method = "GET", !.title = title,
                                  !.url = url, !.force = force]
         go == SmzSummarize(r, summaryCache, now)
     IN IF title.chars = 0
        THEN /\ smzTask' = [smzTask EXCEPT ![t] =
                  SmzRespond(r, SmzJson(400, NoSummary, "none", FALSE,
                                        "Invalid request"))]
             /\ summaryCache' = summaryCache
        ELSE IF title.blank
        THEN /\ smzTask' = [smzTask EXCEPT ![t] =
                  SmzRespond(r, SmzJson(400, NoSummary, "none", FALSE,
                                        "Title is required"))]
             /\ summaryCache' = summaryCache
        ELSE /\ smzTask' = [smzTask EXCEPT ![t] = go.rec]
             /\ summaryCache' = go.cache
  /\ smzCalls' = smzCalls + 1
  /\ UNCHANGED tick

SmzCallGET(t, title, url, force) ==
  /\ smzCalls < MaxSmzCalls
  /\ GET(t, title, url, force)

\* The provider's answer never arrives: neither generateGeminiSummary nor
\* generateOpenAISummary sets a timeout or an abort signal on its call.
SmzProviderLost(t) ==
  /\ smzTask[t].pc \in {"gemini", "openai"}
  /\ ~smzTask[t].lost
  /\ smzTask' = [smzTask EXCEPT ![t].lost = TRUE]
  /\ UNCHANGED <<tick, summaryCache, smzCalls>>

\* a cascade that goes from a failed Gemini attempt straight to the template
SmzGeminiSettlesSkipping(t, out) ==
  /\ smzTask[t].pc = "gemini"
  /\ ~smzTask[t].lost
  /\ LET r       == smzTask[t]
         key     == generateCacheKey(r.title, r.url)
         summary == ProviderSummary("gemini", out)
         text    == generateFallbackSummary(r.title)
     IN IF ProviderSucceeds(out)
        THEN /\ summaryCache' = IndexPut(summaryCache, key,
                                   SmzEntry(summary, now, "gemini"))
             /\ smzTask' = [smzTask EXCEPT ![t] =
                  SmzRespond([r EXCEPT !.log = Settle(r.log, "ok")],
                     SmzJson(200, summary, "gemini", FALSE, "none"))]
        ELSE /\ summaryCache' = IndexPut(summaryCache, key,
                                   SmzEntry(text, now, "fallback"))
             /\ smzTask' = [smzTask EXCEPT ![t] =
                  SmzRespond(
                     [r EXCEPT !.log = Append(Settle(r.log, "failed"),
                          [provider |-> "template", state |-> "ok"])],
                     SmzJson(200, text, "fallback", FALSE, "none"))]
  /\ UNCHANGED <<tick, smzCalls>>

\* await generateGeminiSummary(...) settles
SmzGeminiSettles(t, out) ==
  /\ smzTask[t].pc = "gemini"
  /\ ~smzTask[t].lost
  /\ LET r       == smzTask[t]
         key     == generateCacheKey(r.title, r.url)
         summary == ProviderSummary("gemini", out)
     IN IF ProviderSucceeds(out)
        THEN /\ summaryCache' = IndexPut(summaryCache, key,
                                   SmzEntry(summary, now, "gemini"))
             /\ smzTask' = [smzTask EXCEPT ![t] =
                  SmzRespond([r EXCEPT !.log = Settle(r.log, "ok")],
                     SmzJson(200, summary, "gemini", FALSE, "none"))]
        ELSE /\ summaryCache' = summaryCache
             /\ smzTask' = [smzTask EXCEPT ![t] =
                  [r EXCEPT !.pc = "openai",
                     !.log = Append(Settle(r.log, "failed"),
                                    Attempt("openai"))]]
  /\ UNCHANGED <<tick, smzCalls>>

\* a cascade without the inner catch: a failed OpenAI attempt reaches the
\* handler's outer catch
SmzOpenAISettlesRaising(t, out) ==
  /\ smzTask[t].pc = "openai"
  /\ ~smzTask[t].lost
  /\ LET r       == smzTask[t]
         key     == generateCacheKey(r.title, r.url)
         summary == ProviderSummary("openai", out)
     IN IF ProviderSucceeds(out)
        THEN /\ summaryCache' = IndexPut(summaryCache, key,
                                   SmzEntry(summary, now, "openai"))
             /\ smzTask' = [smzTask EXCEPT ![t] =
                  SmzRespond([r EXCEPT !.log = Settle(r.log, "ok")],
                     SmzJson(200, summary, "openai", FALSE, "none"))]
        ELSE /\ summaryCache' = summaryCache
             /\ smzTask' = [smzTask EXCEPT ![t] =
                  SmzRespond([r EXCEPT !.log = Settle(r.log, "failed")],
                     SmzJson(500, NoSummary, "none", FALSE,
                             "Failed to generate summary"))]
  /\ UNCHANGED <<tick, smzCalls>>

\* await generateOpenAISummary(...) settles; when it fails the template
\* fallback runs at once
SmzOpenAISettles(t, out) ==
  /\ smzTask[t].pc = "openai"
  /\ ~smzTask[t].lost
  /\ LET r       == smzTask[t]
         key     == generateCacheKey(r.title, r.url)
         summary == ProviderSummary("openai", out)
         text    == generateFallbackSummary(r.title)
     IN IF ProviderSucceeds(out)
        THEN /\ summaryCache' = IndexPut(summaryCache, key,
                                   SmzEntry(summary, now, "openai"))
             /\ smzTask' = [smzTask EXCEPT ![t] =
                  SmzRespond([r EXCEPT !.log = Settle(r.log, "ok")],
                     SmzJson(200, summary, "openai", FALSE, "none"))]
        ELSE /\ summaryCache' = IndexPut(summaryCache, key,
                                   SmzEntry(text, now, "fallback"))
             /\ smzTask' = [smzTask EXCEPT ![t] =
                  SmzRespond(
                     [r EXCEPT !.log = Append(Settle(r.log, "failed"),
                          [provider |-> "template", state |-> "ok"])],
                     SmzJson(200, text, "fallback", FALSE, "none"))]
  /\ UNCHANGED <<tick, smzCalls>>

\* the response is sent; the request is over
SmzReturn(t) ==
  /\ smzTask[t].pc = "responded"
  /\ smzTask' = [smzTask EXCEPT ![t] = SmzTaskIdle]
  /\ UNCHANGED <<tick, summaryCache, smzCalls>>

SmzInit ==
  /\ tick = 0
  /\ SumIdle
  /\ LockIdle
  /\ ImgIdle
  /\ SmzIdle
  /\ AggIdle
  /\ UidIdle
  /\ RedIdle
  /\ FrsIdle

SmzNext ==
  \/ \E t \in Tasks : SmzCallPOSTMalformed(t)
       /\ UNCHANGED offSmz
  \/ \E t \in Tasks, ti \in SmzTitles, u \in SmzUrls : SmzCallPOST(t, ti, u)
       /\ UNCHANGED offSmz
  \/ \E t \in Tasks, a \in {"stats", "clear-cache"} : SmzCallGETAction(t, a)
       /\ UNCHANGED offSmz
  \/ \E t \in Tasks, ti \in SmzTitles, u \in SmzUrls, f \in Forces :
       SmzCallGET(t, ti, u, f)
       /\ UNCHANGED offSmz
  \/ \E t \in Tasks : SmzProviderLost(t)
       /\ UNCHANGED offSmz
  \/ \E t \in Tasks, out \in ProviderOutcomes : SmzGeminiSettles(t, out)
       /\ UNCHANGED offSmz
  \/ \E t \in Tasks, out \in ProviderOutcomes : SmzOpenAISettles(t, out)
       /\ UNCHANGED offSmz
  \/ \E t \in Tasks : SmzReturn(t)
       /\ UNCHANGED offSmz
  \/ Tick /\ UNCHANGED offClock

SpecSmz == SmzInit /\ [][SmzNext]_vars

\* every step that can happen does happen: requests are served, provider
\* calls that are not lost settle
SpecSmzLive == SpecSmz /\ WF_vars(SmzNext)

\* ====================================================================
\* Claims about the summarize route, checked under SpecSmz / SpecSmzLive
\* ====================================================================
\* a summarize request (POST or GET) for this title and URL starts
SummarizeCall(t, title, url) ==
  \/ SmzCallPOST(t, title, url)
  \/ \E f \in Forces : SmzCallGET(t, title, url, f)

\* the cache holds an entry for the key that is younger than 24 hours
FreshEntry(key) ==
  /\ key \in DOMAIN summaryCache
  /\ (now - summaryCache[key].timestamp) * MS_PER_DAY < CACHE_DURATION

\* C13: a summarize request that finds an entry younger than 24 hours under
\* its key answers at once with that entry's summary and source and
\* cached = true, invokes no provider (neither Gemini, nor OpenAI, nor the
\* template) and leaves the cache as it is.
C13_CacheHitSkipsProviders ==
  [][\A t \in Tasks, title \in SmzTitles, url \in SmzUrls :
       LET key == generateCacheKey(title, url) IN
       ( /\ ~title.blank
         /\ FreshEntry(key)
         /\ SummarizeCall(t, title, url) )
       => /\ smzTask'[t].pc = "responded"
          /\ smzTask'[t].response =
               SmzJson(200, summaryCache[key].summary,
                       summaryCache[key].source, TRUE, "none")
          /\ smzTask'[t].log = <<>>
          /\ summaryCache' = summaryCache]_vars

\* a GET that asked to force OpenAI was answered from the cache
C13_Witness ==
  \E t \in Tasks :
    /\ smzTask[t].pc = "responded"
    /\ smzTask[t].response.cached
    /\ smzTask[t].force = "openai"
    /\ smzTask[t].log = <<>>

CascadeOrder == <<"gemini", "openai", "template">>

SourceOf(provider) == IF provider = "template" THEN "fallback" ELSE provider

\* The attempts of one request follow the cascade from its position skip + 1
\* on: each provider at its place, each after the failure of the one before
\* it, and an uncached answer carries the payload of the attempt that
\* succeeded.
CascadeFrom(r, skip) ==
  /\ Len(r.log) <= 3 - skip
  /\ \A i \in 1..Len(r.log) :
       /\ r.log[i].provider = CascadeOrder[i + skip]
       /\ i > 1 => r.log[i - 1].state = "failed"
  /\ ( r.pc = "responded" /\ r.response.status = 200 /\ ~r.response.cached
       /\ r.method \in {"POST", "GET"} )
     => /\ r.log # <<>>
        /\ r.log[Len(r.log)].state = "ok"
        /\ r.response.source = SourceOf(r.log[Len(r.log)].provider)
        /\ r.response.summary.by = r.log[Len(r.log)].provider

\* C14 as stated: in every request the attempts are Gemini, then OpenAI only
\* after Gemini failed, then the template only after both failed, each at
\* most once, and the answer carries the payload of the first success.
C14_FixedOrder == \A t \in Tasks : CascadeFrom(smzTask[t], 0)

\* C14 amended: the same, except that a GET with force=openai starts the
\* cascade at OpenAI and a GET with force=fallback starts it at the template,
\* without attempting the providers before.
C14_FixedOrderUnlessForced ==
  \A t \in Tasks :
    CascadeFrom(smzTask[t],
                CASE smzTask[t].force = "openai"   -> 1
                  [] smzTask[t].force = "fallback" -> 2
                  [] OTHER                         -> 0)

\* OpenAI answered after the Gemini attempt of the same request had failed
C14_Witness ==
  \E t \in Tasks :
    /\ smzTask[t].pc = "responded"
    /\ smzTask[t].force = "none"
    /\ Len(smzTask[t].log) = 2
    /\ smzTask[t].log[1].state = "failed"
    /\ smzTask[t].log[2].state = "ok"
    /\ smzTask[t].response.source = "openai"

\* a summarize request has been answered with a summary from one of the
\* three sources
AnsweredWithSummary(r) ==
  /\ r.response.status = 200
  /\ r.response.error = "none"
  /\ r.response.source \in {"gemini", "openai", "fallback"}
  /\ r.response.summary # NoSummary

\* C15 as stated: every answered summarize request whose title is not the
\* empty string carries a summary from gemini, openai or fallback.
C15_AlwaysASummary ==
  \A t \in Tasks :
    ( /\ smzTask[t].pc = "responded"
      /\ smzTask[t].method \in {"POST", "GET"}
      /\ smzTask[t].title.chars > 0 )
    => AnsweredWithSummary(smzTask[t])

\* C15 amended: every answered summarize request whose title has a character
\* that is not whitespace carries a summary from gemini, openai or fallback,
\* whatever the providers did.
C15_AlwaysASummaryForNonBlank ==
  \A t \in Tasks :
    ( /\ smzTask[t].pc = "responded"
      /\ smzTask[t].method \in {"POST", "GET"}
      /\ ~smzTask[t].title.blank )
    => AnsweredWithSummary(smzTask[t])

\* both provider attempts failed, one for a missing key and one with too
\* short a text, and the request was answered with the template
C15_Witness ==
  \E t \in Tasks :
    /\ smzTask[t].pc = "responded"
    /\ Len(smzTask[t].log) = 3
    /\ smzTask[t].log[1].state = "failed"
    /\ smzTask[t].log[2].state = "failed"
    /\ smzTask[t].response.source = "fallback"
    /\ smzTask[t].response.status = 200

\* C16: every request that waits for a provider is eventually answered.
C16_EventuallyResponds ==
  \A t \in Tasks :
    (smzTask[t].pc \in {"gemini", "openai"}) ~> (smzTask[t].pc = "responded")

\* ======================================================= aggregate route
\* GET /api/aggregate: every requested source is asked for its share of the
\* limit, the answers are joined, deduplicated by URL, sorted and cut.

Range(f) == {f[i] : i \in DOMAIN f}

Min(a, b) == IF a < b THEN a ELSE b

Abs(n) == IF n < 0 THEN -n ELSE n

\* Array.prototype.slice(0, n) for n >= 0
Take(list, n) == SubSeq(list, 1, Min(n, Len(list)))

\* Math.ceil(a / b) for a >= 0, b > 0
Ceil(a, b) == (a + b - 1) \div b

\* the url lists a source can hold: no url twice, at most MaxLen long
UrlLists ==
  {l \in UNION {[1..n -> AggUrls] : n \in 0..MaxLen} :
     \A i, j \in DOMAIN l : i # j => l[i] # l[j]}

\* what a source does when asked: answer its list, or throw
Outcomes ==
  [kind : {"ok"}, list : UrlLists] \cup [kind : {"throws"}, list : {<<>>}]

NotAsked == [kind |-> "none", list |-> <<>>]

\* a post as one source reports it
PostOf(req, source, url) ==
  [url |-> url, score |-> req.score[url], created_utc |-> req.created[url],
   source |-> source]

\* a source's complete list, in that source's own order
CompleteList(req, source) ==
  [i \in DOMAIN req.outcome[source].list |->
     PostOf(req, source, req.outcome[source].list[i])]

\* the source route: const limitedPosts = posts.slice(0, limit)
SourceRoute(req, source, limit) == Take(CompleteList(req, source), limit)

\* the same source without an error field on failure
fetchFromSourceSilent(req, source, limit) ==
  IF source \in KnownSources /\ req.outcome[source].kind = "ok"
    THEN LET posts == SourceRoute(req, source, limit)
         IN [posts |-> posts, source |-> source, error |-> "none",
             totalPosts |-> Len(posts)]
    ELSE [posts |-> <<>>, source |-> source, error |-> "none",
          totalPosts |-> 0]

\* fetchFromSource: the try block answers the route's posts, the catch block
\* answers no posts and the error, whether the route threw or the name is
\* unknown.
fetchFromSource(req, source, limit) ==
  IF source \in KnownSources /\ req.outcome[source].kind = "ok"
    THEN LET posts == SourceRoute(req, source, limit)
         IN [posts |-> posts, source |-> source, error |-> "none",
             totalPosts |-> Len(posts)]
    ELSE [posts |-> <<>>, source |-> source,
          error |-> IF source \in KnownSources THEN "thrown"
                    ELSE "Unknown source",
          totalPosts |-> 0]

\* const postsPerSource = Math.ceil(limit / sources.length)
postsPerSource(req) == Ceil(req.limit, Len(req.sources))

\* sources.map(...): reddit switched off is answered without a fetch
sourcePromise(req, source) ==
  IF source = "reddit" /\ ~req.includeReddit
    THEN [posts |-> <<>>, source |-> "reddit",
          error |-> "Disabled by configuration", totalPosts |-> 0]
    ELSE fetchFromSource(req, source, postsPerSource(req))

\* one entry of sourceStats
SourceStat(result) ==
  IF result.status = "fulfilled"
    THEN [success |-> result.value.error = "none",
          count |-> Len(result.value.posts),
          error |-> result.value.error,
          totalPosts |-> result.value.totalPosts]
    ELSE [success |-> FALSE, count |-> 0, error |-> "Unknown error",
          totalPosts |-> 0]

\* results.forEach: a later result of the same source name overwrites
sourceStatsOf(sources, results) ==
  [s \in Range(sources) |->
     LET last == CHOOSE i \in DOMAIN sources :
                   /\ sources[i] = s
                   /\ \A j \in DOMAIN sources : sources[j] = s => j <= i
     IN SourceStat(results[last])]

\* results.forEach: allPosts.push(...posts) of every fulfilled result
RECURSIVE allPostsOf(_)
allPostsOf(results) ==
  IF results = <<>> THEN <<>>
  ELSE LET front == allPostsOf(SubSeq(results, 1, Len(results) - 1))
           last == results[Len(results)]
       IN IF last.status = "fulfilled" THEN front \o last.value.posts
          ELSE front

\* Array.from(new Map(allPosts.map(post => [post.url, post])).values()):
\* a key keeps the position of its first entry and the value of its last
RECURSIVE uniquePostsOf(_)
uniquePostsOf(posts) ==
  IF posts = <<>> THEN <<>>
  ELSE LET front == uniquePostsOf(SubSeq(posts, 1, Len(posts) - 1))
           last == posts[Len(posts)]
       IN IF \E i \in DOMAIN front : front[i].url = last.url
            THEN [i \in DOMAIN front |->
                    IF front[i].url = last.url THEN last ELSE front[i]]
            ELSE Append(front, last)

\* the comparator handed to sort
compare(a, b) ==
  LET scoreA == b.score - a.score
  IN IF Abs(scoreA) < CLOSE_SCORE THEN b.created_utc - a.created_utc
     ELSE scoreA

\* a consistent comparator orders the elements as a strict weak order
Consistent(posts) ==
  \A i, j, k \in DOMAIN posts :
    /\ (compare(posts[i], posts[j]) < 0 /\ compare(posts[j], posts[k]) < 0)
         => compare(posts[i], posts[k]) < 0
    /\ (compare(posts[i], posts[j]) = 0 /\ compare(posts[j], posts[k]) = 0)
         => compare(posts[i], posts[k]) = 0

Orders(n) ==
  {p \in [1..n -> 1..n] : \A i, j \in 1..n : i # j => p[i] # p[j]}

\* Array.prototype.sort: with a consistent comparator the stable sorted
\* order; with an inconsistent one the order is implementation-defined.
sortOutcomes(posts) ==
  LET n == Len(posts)
      sorted(p) ==
        \A i, j \in 1..n : i < j =>
          \/ compare(posts[p[i]], posts[p[j]]) < 0
          \/ compare(posts[p[i]], posts[p[j]]) = 0 /\ p[i] < p[j]
  IN {[i \in 1..n |-> posts[p[i]]] :
        p \in {q \in Orders(n) : Consistent(posts) => sorted(q)}}

\* the request arrives; what each requested source would answer is fixed
AggInit ==
  /\ tick = 0
  /\ SumIdle
  /\ LockIdle
  /\ ImgIdle
  /\ SmzIdle
  /\ UidIdle
  /\ RedIdle
  /\ FrsIdle
  /\ aggPc = "start"
  /\ aggResults = <<>>
  /\ aggResponse = NoAggResponse
  /\ \E a, b \in SourceNames, limit \in 0..MaxLimit, incl \in BOOLEAN,
        score \in [AggUrls -> Scores] :
       \E sources \in {<<a>>, <<a, b>>} :
         \E outcome \in [Range(sources) -> Outcomes \cup {NotAsked}] :
           /\ a # b \/ Len(sources) = 1
           /\ ~incl => "reddit" \in Range(sources)
           /\ \A s \in Range(sources) :
                outcome[s] = NotAsked
                  <=> (s \notin KnownSources \/ (s = "reddit" /\ ~incl))
           /\ aggReq = [sources |-> sources, limit |-> limit,
                        includeReddit |-> incl, outcome |-> outcome,
                        score |-> score, created |-> Created]

\* await Promise.allSettled(sourcePromises): fetchFromSource never rejects
AggSettle ==
  /\ aggPc = "start"
  /\ aggResults' =
       [i \in DOMAIN aggReq.sources |->
          [status |-> "fulfilled",
           value |-> sourcePromise(aggReq, aggReq.sources[i])]]
  /\ aggPc' = "settled"
  /\ UNCHANGED <<aggReq, aggResponse>>

\* join, deduplicate, sort, cut, answer
AggRespond ==
  /\ aggPc = "settled"
  /\ \E sorted \in sortOutcomes(uniquePostsOf(allPostsOf(aggResults))) :
       aggResponse' =
         [posts |-> Take(sorted, aggReq.limit),
          sourceStats |-> sourceStatsOf(aggReq.sources, aggResults),
          error |-> "none"]
  /\ aggPc' = "responded"
  /\ UNCHANGED <<aggReq, aggResults>>

AggNext ==
  \/ AggSettle /\ UNCHANGED offAgg
  \/ AggRespond /\ UNCHANGED offAgg

SpecAgg == AggInit /\ [][AggNext]_vars

\* a requested source fails: its route throws, or its name is unknown
Fails(s) ==
  \/ s \notin KnownSources
  \/ aggReq.outcome[s].kind = "throws"

\* a requested source answers
Remaining(s) ==
  /\ s \in KnownSources
  /\ aggReq.outcome[s].kind = "ok"

\* the posts the remaining sources handed to the aggregate
Delivered ==
  UNION {Range(SourceRoute(aggReq, s, postsPerSource(aggReq))) :
           s \in {r \in Range(aggReq.sources) : Remaining(r)}}

\* C17: whichever requested sources fail (the route throws or the name is
\* unknown), the aggregate still answers with posts of the remaining sources
\* only, as many of their distinct urls as the limit allows, never more than
\* limit posts, and records every failed source with success = false and
\* count 0.
C17_PartialFailure ==
  aggPc = "responded" =>
    LET posts == aggResponse.posts
        urls == {posts[i].url : i \in DOMAIN posts}
    IN /\ aggResponse.error = "none"
       /\ \A s \in Range(aggReq.sources) :
            Fails(s) => /\ aggResponse.sourceStats[s].success = FALSE
                        /\ aggResponse.sourceStats[s].count = 0
       /\ Len(posts) <= aggReq.limit
       /\ Range(posts) \subseteq Delivered
       /\ Cardinality(urls) = Len(posts)
       /\ Len(posts) =
            Min(aggReq.limit, Cardinality({p.url : p \in Delivered}))

\* one source failed, the other one's posts were answered
C17_Witness ==
  /\ aggPc = "responded"
  /\ \E s \in Range(aggReq.sources) : aggReq.outcome[s].kind = "throws"
  /\ Len(aggResponse.posts) = 2

\* the first post with this url in the order the sources were collected
FirstSeen(posts, url) ==
  posts[CHOOSE i \in DOMAIN posts :
          /\ posts[i].url = url
          /\ \A j \in DOMAIN posts : posts[j].url = url => i <= j]

\* C18: when collected posts share a url, the result holds one post for that
\* url, and it is the first one collected, with its own fields.
C18_FirstSeenWins ==
  aggPc = "responded" =>
    LET posts == aggResponse.posts
        collected == allPostsOf(aggResults)
    IN /\ \A i, j \in DOMAIN posts : posts[i].url = posts[j].url => i = j
       /\ \A i \in DOMAIN posts :
            posts[i] = FirstSeen(collected, posts[i].url)

\* C19: in every result, of two posts whose scores differ by CLOSE_SCORE or
\* more the higher-scored one comes first, and of two posts whose scores
\* differ by less the more recently created one comes first.
C19_PairwiseOrder ==
  aggPc = "responded" =>
    LET posts == aggResponse.posts
    IN \A i, j \in DOMAIN posts : i < j =>
         IF Abs(posts[i].score - posts[j].score) >= CLOSE_SCORE
           THEN posts[i].score > posts[j].score
           ELSE posts[i].created_utc >= posts[j].created_utc

\* every answering source's complete list, joined in request order
RECURSIVE CompleteUnion(_)
CompleteUnion(sources) ==
  IF sources = <<>> THEN <<>>
  ELSE LET front == CompleteUnion(SubSeq(sources, 1, Len(sources) - 1))
           last == sources[Len(sources)]
       IN IF Remaining(last) THEN front \o CompleteList(aggReq, last)
          ELSE front

\* C20: the result is the first limit posts of the deduplicated, sorted union
\* of every source's complete list; nothing is cut from a source's list
\* before the global sort.
C20_CutOnlyAfterGlobalSort ==
  aggPc = "responded" =>
    \E sorted \in sortOutcomes(uniquePostsOf(CompleteUnion(aggReq.sources))) :
      aggResponse.posts = Take(sorted, aggReq.limit)

\* ================================================ the page: story ids
\* fetchData converts data.posts to stories and passes them through
\* ensureUniqueIds before setStories.

Digits == {"0", "1", "2", "3", "4", "5", "6", "7", "8", "9"}

DigitValue(c) ==
  CASE c = "0" -> 0 [] c = "1" -> 1 [] c = "2" -> 2 [] c = "3" -> 3
    [] c = "4" -> 4 [] c = "5" -> 5 [] c = "6" -> 6 [] c = "7" -> 7
    [] c = "8" -> 8 [] OTHER -> 9

\* String.prototype.charCodeAt for the characters in use
charCodeAt(c) ==
  IF c \in Digits THEN 48 + DigitValue(c)
  ELSE CASE c = "a" -> 97 [] c = "b" -> 98 [] OTHER -> 120

\* index.toString() for an index below ten
toString(index) ==
  <<CHOOSE c \in Digits : DigitValue(c) = index>>

\* parseInt: the number the leading digits spell, 0 - 1 standing for NaN
RECURSIVE LeadingNumber(_, _)
LeadingNumber(str, acc) ==
  IF str = <<>> \/ Head(str) \notin Digits THEN acc
  ELSE LeadingNumber(Tail(str), 10 * acc + DigitValue(Head(str)))

NaN == 0 - 1

parseInt(str) ==
  IF str = <<>> \/ Head(str) \notin Digits THEN NaN
  ELSE LeadingNumber(str, 0)

\* hash | 0. The strings in use keep every intermediate value inside the
\* 32-bit range, where the conversion changes nothing.
ToInt32(n) == n

\* createHash: hash = ((hash << 5) - hash) + char; hash = hash | 0
RECURSIVE hashFrom(_, _)
hashFrom(hash, str) ==
  IF str = <<>> THEN hash
  ELSE hashFrom(ToInt32((ToInt32(hash * 32) - hash) + charCodeAt(Head(str))),
                Tail(str))

createHash(str) ==
  LET hash == hashFrom(0, str) IN IF hash < 0 THEN 0 - hash ELSE hash

\* parseInt(post.id) || Math.floor(Math.random() * 1000000)
StoryOf(post, random) ==
  LET n == parseInt(post.id)
  IN [id |-> IF n = NaN \/ n = 0 THEN random ELSE n,
      title |-> post.title, url |-> post.url]

\* the callback of stories.map in ensureUniqueIds, for the story at index
ensureUniqueId(story, index, seenIds) ==
  IF story.id \in seenIds
    THEN createHash(story.title \o story.url \o toString(index))
    ELSE story.id

\* data.posts.map(...): every post without a numeric id draws a random one
UidConvert ==
  /\ uidWork.pc = "idle"
  /\ Len(uidRuns) < 2
  /\ \E random \in [DOMAIN uidPosts -> Randoms] :
       uidWork' = [pc |-> "map",
                   stories |-> [i \in DOMAIN uidPosts |->
                                  StoryOf(uidPosts[i], random[i])],
                   seenIds |-> {}, out |-> <<>>]
  /\ UNCHANGED <<uidPosts, uidRuns>>

\* ensureUniqueIds: one call of the map callback
UidEnsureStep ==
  /\ uidWork.pc = "map"
  /\ Len(uidWork.out) < Len(uidWork.stories)
  /\ LET index == Len(uidWork.out)
         story == uidWork.stories[index + 1]
         uniqueId == ensureUniqueId(story, index, uidWork.seenIds)
     IN uidWork' = [uidWork EXCEPT
                      !.seenIds = @ \cup {uniqueId},
                      !.out = Append(@, [story EXCEPT !.id = uniqueId])]
  /\ UNCHANGED <<uidPosts, uidRuns>>

\* setStories(uniqueStories)
UidSetStories ==
  /\ uidWork.pc = "map"
  /\ Len(uidWork.out) = Len(uidWork.stories)
  /\ uidRuns' = Append(uidRuns, uidWork.out)
  /\ uidWork' = NoWork
  /\ UNCHANGED uidPosts

UidInit ==
  /\ tick = 0
  /\ SumIdle
  /\ LockIdle
  /\ ImgIdle
  /\ SmzIdle
  /\ AggIdle
  /\ RedIdle
  /\ FrsIdle
  /\ uidWork = NoWork
  /\ uidRuns = <<>>
  /\ uidPosts \in UNION {[1..n -> [id : PostIds, title : PostTitles,
                                   url : {<<>>}]] : n \in 1..MaxPosts}

UidNext ==
  \/ UidConvert /\ UNCHANGED offUid
  \/ UidEnsureStep /\ UNCHANGED offUid
  \/ UidSetStories /\ UNCHANGED offUid

SpecUid == UidInit /\ [][UidNext]_vars

\* C21: the stories ensureUniqueIds returns have pairwise distinct ids, also
\* when the hash computed for a colliding story equals an id already taken.
C21_DistinctIds ==
  \A r \in DOMAIN uidRuns :
    \A i, j \in DOMAIN uidRuns[r] :
      uidRuns[r][i].id = uidRuns[r][j].id => i = j

\* C22: converting the same posts twice gives every story the same id both
\* times.
C22_StableIds ==
  Len(uidRuns) = 2 =>
    \A i \in DOMAIN uidRuns[1] : uidRuns[1][i].id = uidRuns[2][i].id

\* ======================================================= the reddit route
\* GET /api/reddit asks every subreddit at once; fetchSubredditPosts tries
\* reddit.com and then the r.jina.ai mirror.

\* an endpoint answers after latency ms, with posts or with an HTTP error;
\* one that hangs has not answered when the timeout fires
Answers(kind, latency) == [kind |-> kind, latency |-> latency]

\* how the two endpoints of one subreddit behave
Worlds ==
  { [primary |-> Answers("ok", 1000), mirror |-> Answers("ok", 1000)],
    [primary |-> Answers("http", 1000), mirror |-> Answers("ok", 1000)],
    [primary |-> Answers("hang", REDDIT_TIMEOUT_MS),
     mirror |-> Answers("ok", 1000)],
    [primary |-> Answers("http", 1000), mirror |-> Answers("http", 1000)] }

\* data.data.children of an endpoint that answers: one link post
Children(i, via) ==
  <<[subreddit |-> SUBREDDITS[i], score |-> 10 * i, via |-> via]>>

\* fetchSubredditPosts: const { signal } = getTimeoutSettings() is created
\* once and handed to both fetch calls. A fetch rejects when its signal
\* aborts, at once when the signal has aborted before the call.
fetchSubredditPosts(i, w, limit) ==
  LET primaryAborted == w.primary.latency >= REDDIT_TIMEOUT_MS
      elapsed == IF primaryAborted THEN REDDIT_TIMEOUT_MS
                 ELSE w.primary.latency
      mirrorAborted == elapsed + w.mirror.latency >= REDDIT_TIMEOUT_MS
  IN IF ~primaryAborted /\ w.primary.kind = "ok"
       THEN Take(Children(i, "reddit"), limit)
     ELSE IF ~mirrorAborted /\ w.mirror.kind = "ok"
       THEN Take(Children(i, "mirror"), limit)
     ELSE <<>>

\* Math.max(1, Math.ceil(limit / SUBREDDITS.length))
postsPerSubreddit(limit) ==
  IF Ceil(limit, Len(SUBREDDITS)) < 1 THEN 1
  ELSE Ceil(limit, Len(SUBREDDITS))

\* getMockRedditPosts()
getMockRedditPosts ==
  [k \in 1..MOCK_POSTS |->
     [subreddit |-> "mock", score |-> 0, via |-> "mock"]]

\* results.forEach(posts => allPosts.push(...posts))
RECURSIVE redAllPosts(_)
redAllPosts(results) ==
  IF results = <<>> THEN <<>>
  ELSE redAllPosts(SubSeq(results, 1, Len(results) - 1))
         \o results[Len(results)]

\* allPosts.sort((a, b) => b.score - a.score): a stable insertion
RECURSIVE sortByScore(_)
sortByScore(posts) ==
  IF posts = <<>> THEN <<>>
  ELSE LET front == sortByScore(SubSeq(posts, 1, Len(posts) - 1))
           last == posts[Len(posts)]
           k == Cardinality({j \in DOMAIN front :
                               front[j].score >= last.score})
       IN SubSeq(front, 1, k) \o <<last>> \o SubSeq(front, k + 1, Len(front))

\* failedSubreddits >= SUBREDDITS.length * 0.5
shouldUseFallback(fallbackEnabled, failedSubreddits) ==
  fallbackEnabled /\ 2 * failedSubreddits >= Len(SUBREDDITS)

\* await Promise.all(subredditPromises)
RedFetchAll ==
  /\ redPc = "start"
  /\ LET posts == [i \in DOMAIN SUBREDDITS |->
                     fetchSubredditPosts(i, redEnv.world[i],
                        postsPerSubreddit(REDDIT_DEFAULT_LIMIT))]
     IN redResults' =
          [posts |-> posts,
           failedSubreddits |->
             Cardinality({i \in DOMAIN posts : Len(posts[i]) = 0})]
  /\ redPc' = "fetched"
  /\ UNCHANGED <<redEnv, redResponse>>

\* the mock posts, or the fetched posts sorted by score and cut
RedRespond ==
  /\ redPc = "fetched"
  /\ redResponse' =
       IF shouldUseFallback(redEnv.fallbackEnabled,
                            redResults.failedSubreddits)
         THEN [posts |-> Take(getMockRedditPosts, REDDIT_DEFAULT_LIMIT),
               source |-> "fallback"]
         ELSE [posts |-> Take(sortByScore(redAllPosts(redResults.posts)),
                              REDDIT_DEFAULT_LIMIT),
               source |-> "reddit"]
  /\ redPc' = "responded"
  /\ UNCHANGED <<redEnv, redResults>>

RedInit ==
  /\ tick = 0
  /\ SumIdle
  /\ LockIdle
  /\ ImgIdle
  /\ SmzIdle
  /\ AggIdle
  /\ UidIdle
  /\ FrsIdle
  /\ redPc = "start"
  /\ redResults = [posts |-> <<>>, failedSubreddits |-> 0]
  /\ redResponse = NoRedResponse
  /\ redEnv \in [fallbackEnabled : BOOLEAN,
                 world : [DOMAIN SUBREDDITS -> Worlds]]

RedNext ==
  \/ RedFetchAll /\ UNCHANGED offRed
  \/ RedRespond /\ UNCHANGED offRed

SpecRed == RedInit /\ [][RedNext]_vars

\* C23: when the primary request of a subreddit fails by timeout and the
\* mirror would answer with posts within the timeout, fetchSubredditPosts
\* returns the mirror's posts.
C23_MirrorAfterTimeout ==
  redPc # "start" =>
    \A i \in DOMAIN SUBREDDITS :
      LET w == redEnv.world[i]
      IN (/\ w.primary.kind = "hang"
          /\ w.mirror.kind = "ok"
          /\ w.mirror.latency < REDDIT_TIMEOUT_MS)
           => redResults.posts[i] =
                Children(i, "mirror")

\* C25: with the fallback enabled, the mock posts are served when at least
\* 75% of the subreddits returned no posts, and the fetched posts when fewer
\* than 75% did.
C25_FallbackAtThreeQuarters ==
  (redPc = "responded" /\ redEnv.fallbackEnabled) =>
    IF 100 * redResults.failedSubreddits >= 75 * Len(SUBREDDITS)
      THEN redResponse.source = "fallback"
      ELSE /\ redResponse.source = "reddit"
           /\ \A k \in DOMAIN redResponse.posts :
                redResponse.posts[k].via # "mock"

\* ------------------------------------ the summarize route, one address
\* One client sends request after request for the same story within one
\* minute: the clock does not move.
RateNext ==
  \/ (smzCalls < MaxRateCalls /\ POST("a", TitleShowHN, "u1"))
       /\ UNCHANGED offSmz
  \/ (smzCalls < MaxRateCalls /\ \E f \in Forces : GET("a", TitleShowHN, "u1", f))
       /\ UNCHANGED offSmz
  \/ \E out \in ProviderOutcomes : SmzGeminiSettles("a", out)
       /\ UNCHANGED offSmz
  \/ \E out \in ProviderOutcomes : SmzOpenAISettles("a", out)
       /\ UNCHANGED offSmz
  \/ SmzReturn("a")
       /\ UNCHANGED offSmz

SpecRate == SmzInit /\ [][RateNext]_vars

\* C24: of the requests one address sends within one minute, every one after
\* the first RATE_LIMIT is answered with status 429.
C24_RateLimited ==
  \A t \in Tasks :
    (smzTask[t].pc = "responded" /\ smzCalls > RATE_LIMIT)
      => smzTask[t].response.status = 429

\* the keywords the chosen template spells out: templates[templateIndex]
\* fills its slots with keywords[0] and slices of keywords
TemplateKeywords(summary) ==
  LET k == summary.keywords
      slice(a, b) == {k[i] : i \in (a + 1)..Min(b, Len(k))}
  IN CASE summary.template = 0 -> slice(0, 2) \cup slice(2, 4)
       [] summary.template = 1 -> slice(0, 1) \cup slice(1, 3)
       [] summary.template = 2 -> slice(0, 2) \cup slice(2, Len(k))
       [] OTHER                -> slice(0, 1) \cup slice(1, 3)

\* C26: for every non-empty title the template fallback summary contains at
\* least one keyword taken from the title.
C26_FallbackNamesKeyword ==
  \A t \in Tasks :
    (/\ smzTask[t].pc = "responded"
     /\ smzTask[t].title.chars > 0
     /\ smzTask[t].response.summary.by = "template")
      => TemplateKeywords(smzTask[t].response.summary) # {}

\* ------------------------------------------ the image cache, one caller
\* One caller uses the image cache, one call after the other, and runs
\* cleanOldCache again and again ("call this periodically").
cleanOldCachePeriodically(t) ==
  /\ imgTask[t].pc = "idle"
  /\ imgTask' = [imgTask EXCEPT ![t] =
       [ImgTaskIdle EXCEPT !.pc = "load", !.op = "cleanOldCache"]]
  /\ UNCHANGED <<tick, imgIndexFile, imgFiles, imgCalls>>

OrphanNext ==
  \/ \E q \in Queries : ImgCallGetCachedImage("a", q)
       /\ UNCHANGED offImg
  \/ \E q \in Queries, u \in ImageUrls : ImgCallCacheImage("a", q, u)
       /\ UNCHANGED offImg
  \/ cleanOldCachePeriodically("a")
       /\ UNCHANGED offImg
  \/ ImgLoadIndex("a")
       /\ UNCHANGED offImg
  \/ ImgAccessFile("a")
       /\ UNCHANGED offImg
  \/ ImgSweepEntry("a")
       /\ UNCHANGED offImg
  \/ ImgOpenIndex("a")
       /\ UNCHANGED offImg
  \/ ImgWriteIndex("a", FALSE)
       /\ UNCHANGED offImg
  \/ ImgDownload("a", TRUE)
       /\ UNCHANGED offImg
  \/ ImgWriteImage("a", "ok")
       /\ UNCHANGED offImg
  \/ ImgReturn("a")
       /\ UNCHANGED offImg
  \/ Tick /\ UNCHANGED offClock

\* every step that can be taken is taken in the end: calls complete, and
\* cleanOldCache keeps being called
SpecOrphan == ImgInit /\ [][OrphanNext]_vars /\ WF_vars(OrphanNext)

\* an artifact file on disk that no entry of the index on disk names
Orphaned(f) ==
  /\ f \in imgFiles
  /\ \A k \in DOMAIN loadCacheIndex(imgIndexFile) :
       loadCacheIndex(imgIndexFile)[k].filename # f

\* C27: an image file that cacheImage wrote and that no index entry names is
\* deleted, or named again, in the end.
C27_OrphansAreCleaned ==
  \A q \in Queries :
    Orphaned(generateFilename(q)) ~> ~Orphaned(generateFilename(q))

\* ====================================================================
\* The lock file a stopped writer leaves behind: SpecStale
\* ====================================================================
\* The process stops (crash, kill) while a writer is between
\* fs.writeFile(lockFile) and fs.unlink(lockFile): every task and the
\* in-memory mirror are gone, the files stay as they are.
Crash ==
  /\ LockHolders # {}
  /\ lkTask' = [t \in Tasks |-> LIdle]
  /\ memoryCache' = 0
  /\ memoryCacheTimestamp' = 0
  /\ heap' = [o \in ObjIds |-> EmptyIndex]
  /\ UNCHANGED <<tick, lkIndexFile, lkLockFile, lkTemp, lkCalls>>

\* saveCacheIndex: fs.access(lockFile) finds the lock file; the frame arms
\* setTimeout(resolve, 100) and awaits it
saveCacheIndexWait(t) ==
  /\ lkTask[t].pc = "access"
  /\ lkLockFile
  /\ lkTask' = [lkTask EXCEPT ![t].pc = "wait"]
  /\ UNCHANGED <<tick, lkIndexFile, lkLockFile, lkTemp, heap, memoryCache,
                 memoryCacheTimestamp, lkCalls>>

\* the timer fires: return await saveCacheIndex(index), one frame deeper.
\* Nothing limits the number of frames; the model counts them up to MaxRetry
\* and keeps "MaxRetry or more" as one value.
saveCacheIndexRetry(t) ==
  /\ lkTask[t].pc = "wait"
  /\ lkTask' = [lkTask EXCEPT ![t].pc = "access",
                  ![t].depth = IF lkTask[t].depth < MaxRetry
                               THEN lkTask[t].depth + 1 ELSE MaxRetry]
  /\ UNCHANGED <<tick, lkIndexFile, lkLockFile, lkTemp, heap, memoryCache,
                 memoryCacheTimestamp, lkCalls>>

\* the steps of one cacheSummary call once it is made
StaleStep(t) ==
  \/ LkReadIndex(t)
  \/ LkCacheSummarySweep(t)
  \/ saveCacheIndexWait(t)
  \/ saveCacheIndexRetry(t)
  \/ (~lkLockFile /\ LkAccessLock(t))
  \/ LkCreateLock(t)
  \/ LkOpenTemp(t)
  \/ \E fails \in BOOLEAN : LkWriteTemp(t, fails)
  \/ LkRenameTemp(t)
  \/ LkUnlinkLock(t)
  \/ LkCatchUnlinkTemp(t)
  \/ LkCatchUnlinkLock(t)
  \/ LkReturn(t)

StaleNext ==
  \/ \E t \in Tasks, u \in Urls : LkCallCacheSummary(t, u, "s1", "t1")
       /\ UNCHANGED offLock
  \/ \E t \in Tasks : LkReadIndex(t)
       /\ UNCHANGED offLock
  \/ \E t \in Tasks : LkCacheSummarySweep(t)
       /\ UNCHANGED offLock
  \/ \E t \in Tasks : saveCacheIndexWait(t)
       /\ UNCHANGED offLock
  \/ \E t \in Tasks : saveCacheIndexRetry(t)
       /\ UNCHANGED offLock
  \/ \E t \in Tasks : (~lkLockFile /\ LkAccessLock(t))
       /\ UNCHANGED offLock
  \/ \E t \in Tasks : LkCreateLock(t)
       /\ UNCHANGED offLock
  \/ \E t \in Tasks : LkOpenTemp(t)
       /\ UNCHANGED offLock
  \/ \E t \in Tasks, fails \in BOOLEAN : LkWriteTemp(t, fails)
       /\ UNCHANGED offLock
  \/ \E t \in Tasks : LkRenameTemp(t)
       /\ UNCHANGED offLock
  \/ \E t \in Tasks : LkUnlinkLock(t)
       /\ UNCHANGED offLock
  \/ \E t \in Tasks : LkCatchUnlinkTemp(t)
       /\ UNCHANGED offLock
  \/ \E t \in Tasks : LkCatchUnlinkLock(t)
       /\ UNCHANGED offLock
  \/ \E t \in Tasks : LkReturn(t)
       /\ UNCHANGED offLock
  \/ Crash /\ UNCHANGED offLock

\* every call that was made keeps running: each step of each task that can
\* be taken is taken in the end. Calls and the crash are not forced.
SpecStale ==
  /\ LockInit
  /\ [][StaleNext]_vars
  /\ \A t \in Tasks : WF_vars(StaleStep(t) /\ UNCHANGED offLock)

\* the lock file is on disk and no live writer holds it
StaleLock == lkLockFile /\ LockHolders = {}

\* C28: a cacheSummary call that runs while the lock file is on disk with no
\* live writer holding it completes in the end (returns or throws).
C28_StaleLockCallCompletes ==
  \A t \in Tasks :
    (StaleLock /\ lkTask[t].op = "cacheSummary")
      ~> (lkTask[t].pc \in {"returned", "failed"})

\* ====================================================================
\* The page's reddit client, fetchRedditStories: SpecFrs
\* ====================================================================
\* posts as /api/reddit sends them (RedditPost)
FrsPostSet ==
  {[title |-> <<"a">>, url |-> <<"x">>, score |-> 8, author |-> "u1",
    created |-> 1005, comments |-> 2, subreddit |-> "programming"],
   [title |-> <<"b">>, url |-> <<"x">>, score |-> 4, author |-> "u2",
    created |-> 2, comments |-> 0, subreddit |-> "webdev"]}

NoPosts == <<>>

\* what one fetch of /api/reddit can come to: the fetch rejects; a status
\* that is not ok; a body that is not JSON; JSON without posts; posts that is
\* not an array; an array of posts, empty or not
FrsResponses ==
  {[kind |-> k, shape |-> "none", posts |-> NoPosts] :
      k \in {"reject", "http", "badjson"}}
  \cup {[kind |-> "json", shape |-> sh, posts |-> NoPosts] :
      sh \in {"missing", "notArray"}}
  \cup {[kind |-> "json", shape |-> "array", posts |-> ps] :
      ps \in UNION {[1..n -> FrsPostSet] : n \in 0..2}}

stringToHash(str) ==
  LET hash == hashFrom(0, str) IN IF hash < 0 THEN 0 - hash ELSE hash

convertRedditToStory(redditPost) ==
  [id |-> stringToHash(redditPost.title \o redditPost.url)
            + (redditPost.created % 1000),
   title |-> redditPost.title,
   url |-> redditPost.url,
   score |-> redditPost.score,
   by |-> redditPost.author,
   time |-> redditPost.created,
   descendants |-> redditPost.comments,
   subreddit |-> redditPost.subreddit]

\* the try block of one attempt with an empty posts array let through
attemptOutcomeAcceptsEmpty(response) ==
  IF response.kind = "reject" THEN "throw"
  ELSE IF response.kind = "http" THEN "throw"
  ELSE IF response.kind = "badjson" THEN "throw"
  ELSE IF response.shape # "array" THEN "throw"
  ELSE "return"

\* the try block of one attempt: await fetch, !response.ok, response.json(),
\* !data.posts || !Array.isArray(data.posts), data.posts.length === 0
attemptOutcome(response) ==
  IF response.kind = "reject" THEN "throw"
  ELSE IF response.kind = "http" THEN "throw"
  ELSE IF response.kind = "badjson" THEN "throw"
  ELSE IF response.shape # "array" THEN "throw"
  ELSE IF Len(response.posts) = 0 THEN "throw"
  ELSE "return"

\* baseDelayMs * Math.pow(2, attempt - 1)
backoff(attempt) == baseDelayMs * 2 ^ (attempt - 1)

\* fetchRedditStories(): attempt = 1, the loop is entered
FrsCall ==
  /\ frs.pc = "idle"
  /\ frs' = [NoFrs EXCEPT !.pc = "fetch", !.attempt = 1]

\* one pass of the loop body: the request, the checks, and the catch
FrsAttempt(response) ==
  /\ frs.pc = "fetch"
  /\ LET made == [frs EXCEPT !.requests = @ + 1,
                             !.responses = Append(@, response)]
     IN IF attemptOutcome(response) = "return"
        THEN frs' = [made EXCEPT !.pc = "returned",
                       !.result = [i \in DOMAIN response.posts |->
                                     convertRedditToStory(response.posts[i])]]
        ELSE IF frs.attempt < maxAttempts
        THEN frs' = [made EXCEPT !.pc = "sleep",
                       !.delays = Append(@, backoff(frs.attempt))]
        ELSE frs' = [made EXCEPT !.pc = "returned", !.result = <<>>]

\* sleep(delay) is over; continue: attempt++ and the loop condition
FrsWake ==
  /\ frs.pc = "sleep"
  /\ IF frs.attempt + 1 <= maxAttempts
     THEN frs' = [frs EXCEPT !.pc = "fetch", !.attempt = @ + 1]
     ELSE frs' = [frs EXCEPT !.pc = "returned", !.attempt = @ + 1,
                             !.result = <<>>]

FrsInit ==
  /\ tick = 0
  /\ SumIdle
  /\ LockIdle
  /\ ImgIdle
  /\ SmzIdle
  /\ AggIdle
  /\ UidIdle
  /\ RedIdle
  /\ FrsIdle

FrsNext ==
  \/ FrsCall /\ UNCHANGED offFrs
  \/ \E response \in FrsResponses : FrsAttempt(response)
       /\ UNCHANGED offFrs
  \/ FrsWake /\ UNCHANGED offFrs

SpecFrs == FrsInit /\ [][FrsNext]_vars

\* a response that is ok and carries a non-empty posts array
Usable(response) ==
  /\ response.kind = "json"
  /\ response.shape = "array"
  /\ response.posts # <<>>

UsableAt == {i \in DOMAIN frs.responses : Usable(frs.responses[i])}

\* C29: fetchRedditStories makes at most three requests; it goes on exactly
\* while no response was usable; it returns the converted posts of the first
\* usable response, or the empty list after three unusable ones; it never
\* throws.
C29_BoundedRetry ==
  /\ frs.requests <= 3
  /\ frs.requests = Len(frs.responses)
  /\ frs.pc # "thrown"
  /\ frs.pc \in {"fetch", "sleep"} => UsableAt = {}
  /\ frs.pc = "returned" =>
       IF UsableAt = {}
       THEN frs.requests = 3 /\ frs.result = <<>>
       ELSE /\ UsableAt = {frs.requests}
            /\ frs.result =
                 [i \in DOMAIN frs.responses[frs.requests].posts |->
                    convertRedditToStory(frs.responses[frs.requests].posts[i])]
            /\ frs.result # <<>>

\* a call that retried once and then returned the posts of the second
\* response
C29_Witness ==
  /\ frs.pc = "returned"
  /\ frs.requests = 2
  /\ frs.delays = <<600>>
  /\ frs.result # <<>>

\* ----------------------------------- the summarize route: cached template
\* C30 as stated: no summarize request is answered from the cache with the
\* template text; after a request that ended in the template fallback the
\* next one for the same title and URL runs the cascade again.
C30_TemplateNeverFromCache ==
  \A t \in Tasks :
    ~ ( /\ smzTask[t].pc = "responded"
        /\ smzTask[t].response.cached
        /\ smzTask[t].response.source = "fallback" )

\* C30 amended: while the entry a template fallback left under the key is
\* younger than 24 hours, a request for the same title and URL is answered
\* from the cache with the template text, source fallback and cached = true,
\* and no provider is attempted; once the entry is 24 hours old the cascade
\* runs again and the answer is not a cached one.
C30_TemplateCachedForADay ==
  [][\A t \in Tasks, title \in SmzTitles, url \in SmzUrls :
       LET key == generateCacheKey(title, url) IN
       ( /\ ~title.blank
         /\ key \in DOMAIN summaryCache
         /\ summaryCache[key].source = "fallback"
         /\ SummarizeCall(t, title, url) )
       => IF FreshEntry(key)
          THEN /\ smzTask'[t].pc = "responded"
               /\ smzTask'[t].response.cached
               /\ smzTask'[t].response.source = "fallback"
               /\ smzTask'[t].response.summary = generateFallbackSummary(title)
               /\ smzTask'[t].log = <<>>
          ELSE /\ smzTask'[t].log # <<>>
               /\ ~smzTask'[t].response.cached]_vars

\* a request without force was answered from the cache with the template
\* text an earlier request had left there
C30_Witness ==
  \E t \in Tasks :
    /\ smzTask[t].pc = "responded"
    /\ smzTask[t].force = "none"
    /\ smzTask[t].response.cached
    /\ smzTask[t].response.source = "fallback"
    /\ smzTask[t].response.summary.by = "template"
    /\ smzTask[t].log = <<>>

====
